---- MODULE Spec2Model ----
(***************************************************************************)
(* Model of the kanban board builder of src/lab_03/main.py: the process-   *)
(* wide id sequencer, the validation bag, the project / column / task      *)
(* builders over mutable drafts, the scope facade and build().             *)
(*                                                                         *)
(* Strings are TLA+ strings.  Python's None is the value None below, a     *)
(* string no input set contains; an absent date is NoDate.  Dates are day  *)
(* numbers, date.today() is Today.                                         *)
(***************************************************************************)
EXTENDS Integers, Sequences, FiniteSets, TLC

VARIABLES
    counters,   \* IdSeq._counters: kind -> last number issued (0: none yet)
    pb,         \* session -> the ProjectBuilder object and all it owns
    scopes,     \* session -> the ProjectScope objects created from it
    outcome,    \* session -> what the last build() call produced
    nbuilds,    \* session -> number of build() calls made
    steps,      \* Pipeline._steps of the submission pipeline
    seen,       \* _seen_hashes_per_course: course id -> set of hashes
    runs,       \* what each Pipeline.execute call did, in call order
    registry,   \* KeyRegistry._registry: name -> TypedKey
    reply       \* what the last KeyRegistry call returned or raised

\* the state of the board builder and the state of the pipeline
board == <<counters, pb, scopes, outcome, nbuilds>>
pipeline == <<steps, seen, runs>>
keys == <<registry, reply>>

vars == <<counters, pb, scopes, outcome, nbuilds, steps, seen, runs, registry, reply>>

(***************************************************************************)
(* Bounds of the exploration.                                              *)
(***************************************************************************)
MaxSessions == 2
MaxCols == 2
MaxTasks == 2
MaxDefects == 1
MaxBuilds == 2
MaxSteps == 3
MaxRuns == 2

(***************************************************************************)
(* Values.                                                                 *)
(***************************************************************************)
None == "<None>"
NoDate == -1
Today == 10
Yesterday == Today - 1
Tomorrow == Today + 1

MAX_LEN == 200

\* a string of more than MAX_LEN characters
LongName == "xxxxxxxxxxxxxxxxxxxxxxxxxxxxxxxxxxxxxxxxxxxxxxxxxxxxxxxxxxxxxxxxxxxxxxxxxxxxxxxxxxxxxxxxxxxxxxxxxxxxxxxxxxxxxxxxxxxxxxxxxxxxxxxxxxxxxxxxxxxxxxxxxxxxxxxxxxxxxxxxxxxxxxxxxxxxxxxxxxxxxxxxxxxxxxxxxxxxxxxxxxxxx"

ALLOWED_PRIORITIES == {"Low", "Normal", "High", "Critical"}

\* repr of sorted(ALLOWED_PRIORITIES)
SortedAllowed == "['Critical', 'High', 'Low', 'Normal']"

Kinds == {"project", "column", "task"}

\* str.strip() on the strings the model draws
Strip(v) ==
    CASE v \in {"", " ", "  "} -> ""
      [] v = " PM " -> "PM"
      [] v = " Alina" -> "Alina"
      [] OTHER -> v

\* Python truthiness of an Optional[str]
Truthy(v) == v /= None /\ v /= ""

Digit(d) ==
    CASE d = 0 -> "0" [] d = 1 -> "1" [] d = 2 -> "2" [] d = 3 -> "3"
      [] d = 4 -> "4" [] d = 5 -> "5" [] d = 6 -> "6" [] d = 7 -> "7"
      [] d = 8 -> "8" [] d = 9 -> "9"

RECURSIVE Dec(_)
Dec(n) == IF n < 10 THEN Digit(n) ELSE Dec(n \div 10) \o Digit(n % 10)

\* f"{kind}_{n}"
IdStr(kind, n) == kind \o "_" \o Dec(n)

\* IdSeq.next with one count shared by all kinds
IdSeqNext_SharedCount(cnt, kind) ==
    [id |-> IdStr(kind, cnt[kind] + 1),
     counters |-> [k \in Kinds |-> cnt[k] + 1]]

\* IdSeq.next(kind): the id issued and the counters after the call
IdSeqNext(cnt, kind) ==
    [id |-> IdStr(kind, cnt[kind] + 1),
     counters |-> [cnt EXCEPT ![kind] = cnt[kind] + 1]]

(***************************************************************************)
(* Validation bag.                                                         *)
(***************************************************************************)
LocNew == "caller of ProjectBuilder()"
LocCaller == "caller"
LocColumn == "main.py:212"
LocTask == "main.py:222"

ValidationError(msg, kind, oid, loc) ==
    [message |-> msg, object_kind |-> kind, object_id |-> oid, loc |-> loc]

\* ValidationBag.add that puts the new entry first
VbAdd_Prepend(vb, msg, kind, oid, loc) == <<ValidationError(msg, kind, oid, loc)>> \o vb

\* ValidationBag.add
VbAdd(vb, msg, kind, oid, loc) == Append(vb, ValidationError(msg, kind, oid, loc))

\* ValidationBag.errors: a copy of the list
Errors(vb) == vb

\* ValidationError.__str__
ErrStr(e) ==
    "[" \o e.loc \o "] " \o e.object_kind \o "("
        \o (IF Truthy(e.object_id) THEN e.object_id ELSE "-") \o "): " \o e.message

\* raise_if_any that tolerates a single entry
RaiseIfAny_MoreThanOne(vb) == Len(vb) > 1

\* raise_if_any: TRUE when it raises
RaiseIfAny(vb) == Len(vb) > 0

\* the message of raise_if_any with the first entry only
ErrorLines_FirstOnly(vb) == IF vb = <<>> THEN <<>> ELSE <<ErrStr(vb[1])>>

\* the lines of the ValueError raise_if_any builds
ErrorLines(vb) == [i \in 1..Len(vb) |-> ErrStr(vb[i])]

(***************************************************************************)
(* BaseBuilder: h is the builder's (kind, oid, loc).                       *)
(***************************************************************************)
Handle(kind, oid, loc) == [kind |-> kind, oid |-> oid, loc |-> loc]

MsgNonEmpty(field_name) == "'" \o field_name \o "' must be non-empty"
MsgTooLong(field_name) == "'" \o field_name \o "' length must be <= " \o Dec(MAX_LEN)
MsgMustBeSet(field_name) == "'" \o field_name \o "' must be set"
MsgNotInSet(field_name, value) ==
    "'" \o field_name \o "' must be in " \o SortedAllowed \o " (got '" \o value \o "')"
MsgDuePast == "due_date cannot be in the past"

\* _non_empty: the bag after the call and the value returned
NonEmpty(vb, h, value, field_name) ==
    IF value = None \/ Strip(value) = ""
    THEN [vb |-> VbAdd(vb, MsgNonEmpty(field_name), h.kind, h.oid, h.loc), ret |-> None]
    ELSE IF Len(value) > MAX_LEN
    THEN [vb |-> VbAdd(vb, MsgTooLong(field_name), h.kind, h.oid, h.loc), ret |-> value]
    ELSE [vb |-> vb, ret |-> value]

\* _in_set
InSet(vb, h, value, allowed, field_name) ==
    IF value = None
    THEN [vb |-> VbAdd(vb, MsgMustBeSet(field_name), h.kind, h.oid, h.loc), ret |-> None]
    ELSE IF value \notin allowed
    THEN [vb |-> VbAdd(vb, MsgNotInSet(field_name, value), h.kind, h.oid, h.loc), ret |-> value]
    ELSE [vb |-> vb, ret |-> value]

\* _due_not_past: the bag after the call
DueNotPast(vb, h, d, allow_past) ==
    IF d = NoDate THEN vb
    ELSE IF (~allow_past) /\ d < Today
    THEN VbAdd(vb, MsgDuePast, h.kind, h.oid, h.loc)
    ELSE vb

(***************************************************************************)
(* Drafts and the ProjectBuilder object.                                   *)
(***************************************************************************)
DraftProject ==
    [name |-> None, owner |-> None, created_at |-> Today,
     column_ids |-> <<>>, task_ids |-> <<>>]

DraftColumn == [name |-> None, task_ids |-> <<>>]

DraftTask ==
    [title |-> None, description |-> None, assignee |-> None,
     priority |-> "Normal", due_date |-> NoDate, created_at |-> Today,
     column_id |-> None]

\* ProjectBuilder.__init__, given the id IdSeq issued
NewProjectBuilder(pid) ==
    [pid |-> pid, loc |-> LocNew, draft |-> DraftProject,
     columns |-> <<>>, tasks |-> <<>>, allow_past_due |-> FALSE, vb |-> <<>>]

ProjectHandle(b) == Handle("Project", None, b.loc)
ColumnHandle(cid) == Handle("Column", cid, LocColumn)
TaskHandle(tid) == Handle("Task", tid, LocTask)

Range(f) == {f[i] : i \in DOMAIN f}

(***************************************************************************)
(* Builder methods, as functions of the ProjectBuilder object b.  A call   *)
(* made by a configure callback is a record: m the method, s its string    *)
(* argument, d its date argument, f the field list of copy_from.           *)
(***************************************************************************)
Call(m, s, d, f) == [m |-> m, s |-> s, d |-> d, f |-> f]

NoCallback == <<>>

\* ProjectBuilder.name
PbName(b, value) ==
    [b EXCEPT !.draft.name = value,
              !.vb = NonEmpty(b.vb, ProjectHandle(b), value, "project.name").vb]

\* ProjectBuilder.owner
PbOwner(b, value) == [b EXCEPT !.draft.owner = Strip(value)]

\* ProjectBuilder.allow_past_due
PbAllowPastDue(b, value) == [b EXCEPT !.allow_past_due = value]

\* ColumnBuilder.name
CbName(b, cid, value) ==
    [b EXCEPT !.columns[cid].name = value,
              !.vb = NonEmpty(b.vb, ColumnHandle(cid), value, "column.name").vb]

\* as_backlog that records its warning about a column not named backlog
CbAsBacklog_Warns(b, cid) ==
    IF Truthy(b.columns[cid].name) /\ b.columns[cid].name \notin {"backlog", "Backlog"}
    THEN [b EXCEPT !.vb = VbAdd(b.vb, "column is not a backlog", "Column", cid, LocColumn)]
    ELSE b

\* ColumnBuilder.as_backlog
CbAsBacklog(b, cid) == b

\* TaskBuilder.title
TbTitle(b, tid, value) ==
    [b EXCEPT !.tasks[tid].title = value,
              !.vb = NonEmpty(b.vb, TaskHandle(tid), value, "task.title").vb]

\* TaskBuilder.description
TbDescription(b, tid, value) == [b EXCEPT !.tasks[tid].description = value]

\* TaskBuilder.assignee
TbAssignee(b, tid, value) == [b EXCEPT !.tasks[tid].assignee = Strip(value)]

\* TaskBuilder.priority
TbPriority(b, tid, value) ==
    [b EXCEPT !.tasks[tid].priority = value,
              !.vb = InSet(b.vb, TaskHandle(tid), value, ALLOWED_PRIORITIES, "task.priority").vb]

\* TaskBuilder.due
TbDue(b, tid, value) ==
    [b EXCEPT !.tasks[tid].due_date = value,
              !.vb = DueNotPast(b.vb, TaskHandle(tid), value, b.allow_past_due)]

\* in_column that replaces the name of an existing column by its id at once
TbInColumn_ResolveNow(b, tid, column_name_or_id) ==
    LET named == {cid \in DOMAIN b.columns : b.columns[cid].name = column_name_or_id}
    IN [b EXCEPT !.tasks[tid].column_id =
            IF Cardinality(named) = 1 THEN CHOOSE cid \in named : TRUE
            ELSE column_name_or_id]

\* TaskBuilder.in_column
TbInColumn(b, tid, column_name_or_id) ==
    [b EXCEPT !.tasks[tid].column_id = column_name_or_id]

\* TaskBuilder.mark_urgent
TbMarkUrgent(b, tid) == TbDue(TbPriority(b, tid, "High"), tid, Today + 2)

\* TaskBuilder.assign_and_due
TbAssignAndDue(b, tid, user, d) == TbDue(TbAssignee(b, tid, user), tid, d)

DefaultCopyFields == <<"title", "description", "assignee", "priority", "due_date">>

\* one iteration of copy_from that copies a listed field also when the
\* source holds no value for it
CopyField_Overwrite(b, tid, other, f) ==
    LET o == b.tasks[other] IN
    IF f = "title" THEN TbTitle(b, tid, o.title)
    ELSE IF f = "description" THEN TbDescription(b, tid, o.description)
    ELSE IF f = "assignee" THEN [b EXCEPT !.tasks[tid].assignee = o.assignee]
    ELSE IF f = "priority" THEN TbPriority(b, tid, o.priority)
    ELSE IF f = "due_date" THEN TbDue(b, tid, o.due_date)
    ELSE b

\* one iteration of copy_from that also copies the column reference
CopyField_CopiesColumn(b, tid, other, f) ==
    LET o == b.tasks[other] IN
    IF f = "title" /\ o.title /= None THEN TbTitle(b, tid, o.title)
    ELSE IF f = "description" /\ o.description /= None THEN TbDescription(b, tid, o.description)
    ELSE IF f = "assignee" /\ o.assignee /= None THEN TbAssignee(b, tid, o.assignee)
    ELSE IF f = "priority" /\ Truthy(o.priority) THEN TbPriority(b, tid, o.priority)
    ELSE IF f = "due_date" /\ o.due_date /= NoDate THEN TbDue(b, tid, o.due_date)
    ELSE IF f = "column_id" THEN TbInColumn(b, tid, o.column_id)
    ELSE b

\* one iteration of the loop of copy_from
CopyField(b, tid, other, f) ==
    LET o == b.tasks[other] IN
    IF f = "title" /\ o.title /= None THEN TbTitle(b, tid, o.title)
    ELSE IF f = "description" /\ o.description /= None THEN TbDescription(b, tid, o.description)
    ELSE IF f = "assignee" /\ o.assignee /= None THEN TbAssignee(b, tid, o.assignee)
    ELSE IF f = "priority" /\ Truthy(o.priority) THEN TbPriority(b, tid, o.priority)
    ELSE IF f = "due_date" /\ o.due_date /= NoDate THEN TbDue(b, tid, o.due_date)
    ELSE b

\* TaskBuilder.copy_from
RECURSIVE TbCopyFrom(_, _, _, _)
TbCopyFrom(b, tid, other, fields) ==
    IF fields = <<>> THEN b
    ELSE TbCopyFrom(CopyField(b, tid, other, Head(fields)), tid, other, Tail(fields))

\* one call of a task configure callback
TaskCall(b, tid, c) ==
    CASE c.m = "title" -> TbTitle(b, tid, c.s)
      [] c.m = "description" -> TbDescription(b, tid, c.s)
      [] c.m = "assignee" -> TbAssignee(b, tid, c.s)
      [] c.m = "priority" -> TbPriority(b, tid, c.s)
      [] c.m = "due" -> TbDue(b, tid, c.d)
      [] c.m = "in_column" -> TbInColumn(b, tid, c.s)
      [] c.m = "mark_urgent" -> TbMarkUrgent(b, tid)
      [] c.m = "assign_and_due" -> TbAssignAndDue(b, tid, c.s, c.d)
      [] c.m = "copy_from" -> TbCopyFrom(b, tid, c.s, c.f)

\* configure(builder) for a task builder: the calls of the callback, in order
RECURSIVE ConfigureTask(_, _, _)
ConfigureTask(b, tid, calls) ==
    IF calls = <<>> THEN b
    ELSE ConfigureTask(TaskCall(b, tid, Head(calls)), tid, Tail(calls))

\* one call of a column configure callback
ColumnCall(b, cid, c) ==
    CASE c.m = "name" -> CbName(b, cid, c.s)
      [] c.m = "as_backlog" -> CbAsBacklog(b, cid)

RECURSIVE ConfigureColumn(_, _, _)
ConfigureColumn(b, cid, calls) ==
    IF calls = <<>> THEN b
    ELSE ConfigureColumn(ColumnCall(b, cid, Head(calls)), cid, Tail(calls))

\* ProjectBuilder.column, given the id IdSeq issued
PbColumn(b, cid, name, configure) ==
    LET b1 == [b EXCEPT !.columns = (cid :> DraftColumn) @@ b.columns,
                        !.draft.column_ids = Append(b.draft.column_ids, cid)]
        b2 == CbName(b1, cid, name)
    IN ConfigureColumn(b2, cid, configure)

\* ProjectBuilder.task that takes the last column for a missing column argument
PbTask_LastColumn(b, tid, title, configure, column) ==
    LET b1 == [b EXCEPT !.tasks = (tid :> DraftTask) @@ b.tasks,
                        !.draft.task_ids = Append(b.draft.task_ids, tid)]
        b2 == TbTitle(b1, tid, title)
        b3 == IF column = None /\ b2.draft.column_ids /= <<>>
              THEN TbInColumn(b2, tid, b2.draft.column_ids[Len(b2.draft.column_ids)])
              ELSE IF column /= None THEN TbInColumn(b2, tid, column)
              ELSE b2
    IN ConfigureTask(b3, tid, configure)

\* ProjectBuilder.task, given the id IdSeq issued
PbTask(b, tid, title, configure, column) ==
    LET b1 == [b EXCEPT !.tasks = (tid :> DraftTask) @@ b.tasks,
                        !.draft.task_ids = Append(b.draft.task_ids, tid)]
        b2 == TbTitle(b1, tid, title)
        b3 == IF column = None /\ b2.draft.column_ids /= <<>>
              THEN TbInColumn(b2, tid, b2.draft.column_ids[1])
              ELSE IF column /= None THEN TbInColumn(b2, tid, column)
              ELSE b2
    IN ConfigureTask(b3, tid, configure)

(***************************************************************************)
(* Immutable output and build().                                           *)
(***************************************************************************)
Project(id, name, created_at, owner, column_ids, task_ids) ==
    [id |-> id, name |-> name, created_at |-> created_at, owner |-> owner,
     column_ids |-> column_ids, task_ids |-> task_ids]

Column(id, project_id, name, task_ids) ==
    [id |-> id, project_id |-> project_id, name |-> name, task_ids |-> task_ids]

Task(id, project_id, column_id, title, description, assignee, priority, due_date, created_at) ==
    [id |-> id, project_id |-> project_id, column_id |-> column_id, title |-> title,
     description |-> description, assignee |-> assignee, priority |-> priority,
     due_date |-> due_date, created_at |-> created_at]

BoardDB(projects, columns, tasks) ==
    [projects |-> projects, columns |-> columns, tasks |-> tasks]

EmptyDB == BoardDB(<<>>, <<>>, <<>>)

MsgNoColumns == "project must have at least one column"
MsgDuplicate(n) == "duplicate column name '" \o n \o "'"
MsgUnknownColumn(col_id) == "unknown column '" \o col_id \o "' for task"
MsgTaskNoColumn == "task has no column and project has no columns"
InvalidName(cid) == "<invalid:" \o cid \o ">"
UnknownColumnId == "unknown_column"

\* list(l) that hands out the draft's own list object, seen through the
\* reference AliasOfDraft
AliasOfDraft == <<"<the list of the draft>">>
ListCopy_Alias(l) == AliasOfDraft

\* list(l): a new list with the elements of l
ListCopy(l) == l

\* names.count(n)
NameCount(b, n) ==
    Cardinality({i \in DOMAIN b.draft.column_ids : b.columns[b.draft.column_ids[i]].name = n})

\* `duplicates` with count(n) >= 1 for count(n) > 1
Duplicates_AnyCount(b) ==
    {n \in {b.columns[cid].name : cid \in Range(b.draft.column_ids)} :
        n /= None /\ NameCount(b, n) >= 1}

\* the set `duplicates` of build()
Duplicates(b) ==
    {n \in {b.columns[cid].name : cid \in Range(b.draft.column_ids)} :
        n /= None /\ NameCount(b, n) > 1}

\* the orders in which a for loop may iterate over the set S
Orders(S) == {o \in [1..Cardinality(S) -> S] : Range(o) = S}

\* the loop over `duplicates`, iterated in the order dups
RECURSIVE AddDuplicates(_, _, _)
AddDuplicates(vb, pid, dups) ==
    IF dups = <<>> THEN vb
    ELSE AddDuplicates(VbAdd(vb, MsgDuplicate(Head(dups)), "Project", pid, LocCaller),
                       pid, Tail(dups))

\* the loop over the columns, from the i-th on: the bag and the dict `columns`
RECURSIVE BuildColumns(_, _, _, _)
BuildColumns(b, i, vb, columns) ==
    IF i > Len(b.draft.column_ids) THEN [vb |-> vb, columns |-> columns]
    ELSE
        LET cid == b.draft.column_ids[i]
            draft == b.columns[cid]
            r == NonEmpty(vb, ProjectHandle(b), draft.name, "column[" \o cid \o "].name")
            col_name == IF ~Truthy(r.ret)
                        THEN (IF Truthy(draft.name) THEN draft.name ELSE InvalidName(cid))
                        ELSE (IF Truthy(draft.name) THEN draft.name ELSE "")
        IN BuildColumns(b, i + 1, r.vb,
                        (cid :> Column(cid, b.pid, col_name, <<>>)) @@ columns)

\* the column ids whose built name is col_id, in dict order
Found(b, columns, col_id) ==
    SelectSeq(b.draft.column_ids, LAMBDA cid : columns[cid].name = col_id)

\* the normalisation without the substitution of the id for a matching name
ResolveColumn_KeepsName(b, columns, vb, tid, col_id) ==
    IF Truthy(col_id) /\ col_id \in DOMAIN columns
    THEN [col_id |-> col_id, vb |-> vb]
    ELSE IF Truthy(col_id)
    THEN LET found == Found(b, columns, col_id) IN
         IF Len(found) = 1
         THEN [col_id |-> col_id, vb |-> vb]
         ELSE [col_id |-> IF b.draft.column_ids /= <<>>
                          THEN b.draft.column_ids[1] ELSE col_id,
               vb |-> VbAdd(vb, MsgUnknownColumn(col_id), "Task", tid, LocCaller)]
    ELSE IF b.draft.column_ids /= <<>>
    THEN [col_id |-> b.draft.column_ids[1], vb |-> vb]
    ELSE [col_id |-> col_id,
          vb |-> VbAdd(vb, MsgTaskNoColumn, "Task", tid, LocCaller)]

\* the normalisation falling back to the last column instead of the first
ResolveColumn_LastColumn(b, columns, vb, tid, col_id) ==
    IF Truthy(col_id) /\ col_id \in DOMAIN columns
    THEN [col_id |-> col_id, vb |-> vb]
    ELSE IF Truthy(col_id)
    THEN LET found == Found(b, columns, col_id) IN
         IF Len(found) = 1
         THEN [col_id |-> found[1], vb |-> vb]
         ELSE [col_id |-> IF b.draft.column_ids /= <<>>
                          THEN b.draft.column_ids[Len(b.draft.column_ids)] ELSE col_id,
               vb |-> VbAdd(vb, MsgUnknownColumn(col_id), "Task", tid, LocCaller)]
    ELSE IF b.draft.column_ids /= <<>>
    THEN [col_id |-> b.draft.column_ids[1], vb |-> vb]
    ELSE [col_id |-> col_id,
          vb |-> VbAdd(vb, MsgTaskNoColumn, "Task", tid, LocCaller)]

\* the normalisation trying the column names before the column ids
ResolveColumn_NameFirst(b, columns, vb, tid, col_id) ==
    IF Truthy(col_id) /\ Len(Found(b, columns, col_id)) = 1
    THEN [col_id |-> Found(b, columns, col_id)[1], vb |-> vb]
    ELSE IF Truthy(col_id) /\ col_id \in DOMAIN columns
    THEN [col_id |-> col_id, vb |-> vb]
    ELSE IF Truthy(col_id)
    THEN [col_id |-> IF b.draft.column_ids /= <<>>
                     THEN b.draft.column_ids[1] ELSE col_id,
          vb |-> VbAdd(vb, MsgUnknownColumn(col_id), "Task", tid, LocCaller)]
    ELSE IF b.draft.column_ids /= <<>>
    THEN [col_id |-> b.draft.column_ids[1], vb |-> vb]
    ELSE [col_id |-> col_id,
          vb |-> VbAdd(vb, MsgTaskNoColumn, "Task", tid, LocCaller)]

\* the normalisation that takes an empty string for a given reference
ResolveColumn_EmptyIsUnknown(b, columns, vb, tid, col_id) ==
    IF col_id /= None /\ col_id \in DOMAIN columns
    THEN [col_id |-> col_id, vb |-> vb]
    ELSE IF col_id /= None
    THEN LET found == Found(b, columns, col_id) IN
         IF Len(found) = 1
         THEN [col_id |-> found[1], vb |-> vb]
         ELSE [col_id |-> IF b.draft.column_ids /= <<>>
                          THEN b.draft.column_ids[1] ELSE col_id,
               vb |-> VbAdd(vb, MsgUnknownColumn(col_id), "Task", tid, LocCaller)]
    ELSE IF b.draft.column_ids /= <<>>
    THEN [col_id |-> b.draft.column_ids[1], vb |-> vb]
    ELSE [col_id |-> col_id,
          vb |-> VbAdd(vb, MsgTaskNoColumn, "Task", tid, LocCaller)]

\* the check and normalisation of one task's column_id:
\* the id it ends with and the bag
ResolveColumn(b, columns, vb, tid, col_id) ==
    IF Truthy(col_id) /\ col_id \in DOMAIN columns
    THEN [col_id |-> col_id, vb |-> vb]
    ELSE IF Truthy(col_id)
    THEN LET found == Found(b, columns, col_id) IN
         IF Len(found) = 1
         THEN [col_id |-> found[1], vb |-> vb]
         ELSE [col_id |-> IF b.draft.column_ids /= <<>>
                          THEN b.draft.column_ids[1] ELSE col_id,
               vb |-> VbAdd(vb, MsgUnknownColumn(col_id), "Task", tid, LocCaller)]
    ELSE IF b.draft.column_ids /= <<>>
    THEN [col_id |-> b.draft.column_ids[1], vb |-> vb]
    ELSE [col_id |-> col_id,
          vb |-> VbAdd(vb, MsgTaskNoColumn, "Task", tid, LocCaller)]

\* the priority of the immutable task without the coercion
CoercePriority_Keep(priority) == priority

\* the priority of the immutable task
CoercePriority(priority) ==
    IF priority \in ALLOWED_PRIORITIES THEN priority ELSE "Normal"

\* the loop over the tasks, left at the first task that adds a defect
RECURSIVE BuildTasks_StopAtFirstDefect(_, _, _, _, _)
BuildTasks_StopAtFirstDefect(b, i, vb, columns, tasks) ==
    IF i > Len(b.draft.task_ids) THEN [vb |-> vb, columns |-> columns, tasks |-> tasks]
    ELSE
        LET tid == b.draft.task_ids[i]
            d == b.tasks[tid]
            vb1 == NonEmpty(vb, ProjectHandle(b), d.title, "task[" \o tid \o "].title").vb
            vb2 == InSet(vb1, ProjectHandle(b), d.priority, ALLOWED_PRIORITIES,
                         "task[" \o tid \o "].priority").vb
            vb3 == DueNotPast(vb2, ProjectHandle(b), d.due_date, b.allow_past_due)
            r == ResolveColumn(b, columns, vb3, tid, d.column_id)
            t == Task(tid, b.pid,
                      IF Truthy(r.col_id) THEN r.col_id ELSE UnknownColumnId,
                      IF Truthy(d.title) THEN d.title ELSE "",
                      d.description, d.assignee, CoercePriority(d.priority),
                      d.due_date, d.created_at)
            columns1 == IF r.col_id \in DOMAIN columns
                        THEN [columns EXCEPT ![r.col_id].task_ids = Append(@, tid)]
                        ELSE columns
        IN IF r.vb /= vb
           THEN [vb |-> r.vb, columns |-> columns1, tasks |-> (tid :> t) @@ tasks]
           ELSE BuildTasks_StopAtFirstDefect(b, i + 1, r.vb, columns1, (tid :> t) @@ tasks)

\* the loop over the tasks that puts each task at the head of its column
RECURSIVE BuildTasks_Prepend(_, _, _, _, _)
BuildTasks_Prepend(b, i, vb, columns, tasks) ==
    IF i > Len(b.draft.task_ids) THEN [vb |-> vb, columns |-> columns, tasks |-> tasks]
    ELSE
        LET tid == b.draft.task_ids[i]
            d == b.tasks[tid]
            vb1 == NonEmpty(vb, ProjectHandle(b), d.title, "task[" \o tid \o "].title").vb
            vb2 == InSet(vb1, ProjectHandle(b), d.priority, ALLOWED_PRIORITIES,
                         "task[" \o tid \o "].priority").vb
            vb3 == DueNotPast(vb2, ProjectHandle(b), d.due_date, b.allow_past_due)
            r == ResolveColumn(b, columns, vb3, tid, d.column_id)
            t == Task(tid, b.pid,
                      IF Truthy(r.col_id) THEN r.col_id ELSE UnknownColumnId,
                      IF Truthy(d.title) THEN d.title ELSE "",
                      d.description, d.assignee, CoercePriority(d.priority),
                      d.due_date, d.created_at)
            columns1 == IF r.col_id \in DOMAIN columns
                        THEN [columns EXCEPT ![r.col_id].task_ids = <<tid>> \o @]
                        ELSE columns
        IN BuildTasks_Prepend(b, i + 1, r.vb, columns1, (tid :> t) @@ tasks)

\* the loop over the tasks, from the i-th on: the bag and the dicts
RECURSIVE BuildTasks(_, _, _, _, _)
BuildTasks(b, i, vb, columns, tasks) ==
    IF i > Len(b.draft.task_ids) THEN [vb |-> vb, columns |-> columns, tasks |-> tasks]
    ELSE
        LET tid == b.draft.task_ids[i]
            d == b.tasks[tid]
            vb1 == NonEmpty(vb, ProjectHandle(b), d.title, "task[" \o tid \o "].title").vb
            vb2 == InSet(vb1, ProjectHandle(b), d.priority, ALLOWED_PRIORITIES,
                         "task[" \o tid \o "].priority").vb
            vb3 == DueNotPast(vb2, ProjectHandle(b), d.due_date, b.allow_past_due)
            r == ResolveColumn(b, columns, vb3, tid, d.column_id)
            t == Task(tid, b.pid,
                      IF Truthy(r.col_id) THEN r.col_id ELSE UnknownColumnId,
                      IF Truthy(d.title) THEN d.title ELSE "",
                      d.description, d.assignee, CoercePriority(d.priority),
                      d.due_date, d.created_at)
            columns1 == IF r.col_id \in DOMAIN columns
                        THEN [columns EXCEPT ![r.col_id].task_ids = Append(@, tid)]
                        ELSE columns
        IN BuildTasks(b, i + 1, r.vb, columns1, (tid :> t) @@ tasks)

\* the checks without the one for a project that has no column
BuildChecks_NoColumnCheck(b, dups) ==
    LET vb1 == IF ~Truthy(b.draft.name)
               THEN NonEmpty(b.vb, ProjectHandle(b), b.draft.name, "project.name").vb
               ELSE b.vb
    IN AddDuplicates(vb1, b.pid, dups)

\* the checks with a name check that skips a defect the bag already holds
BuildChecks_Dedup(b, dups) ==
    LET vb1 == IF ~Truthy(b.draft.name)
                  /\ \A i \in DOMAIN b.vb : b.vb[i].message /= MsgNonEmpty("project.name")
               THEN NonEmpty(b.vb, ProjectHandle(b), b.draft.name, "project.name").vb
               ELSE b.vb
        vb2 == IF b.draft.column_ids = <<>>
               THEN VbAdd(vb1, MsgNoColumns, "Project", b.pid, LocCaller)
               ELSE vb1
    IN AddDuplicates(vb2, b.pid, dups)

\* the checks of build() that precede the loops
BuildChecks(b, dups) ==
    LET vb1 == IF ~Truthy(b.draft.name)
               THEN NonEmpty(b.vb, ProjectHandle(b), b.draft.name, "project.name").vb
               ELSE b.vb
        vb2 == IF b.draft.column_ids = <<>>
               THEN VbAdd(vb1, MsgNoColumns, "Project", b.pid, LocCaller)
               ELSE vb1
    IN AddDuplicates(vb2, b.pid, dups)

\* ProjectBuilder.build with `duplicates` iterated in the order dups: the bag
\* after it, the dicts assembled when raise_if_any is reached, and whether
\* raise_if_any raises
Build(b, dups) ==
    LET vb0 == BuildChecks(b, dups)
        cs == BuildColumns(b, 1, vb0, <<>>)
        ts == BuildTasks(b, 1, cs.vb, cs.columns, <<>>)
        p == Project(b.pid, IF Truthy(b.draft.name) THEN b.draft.name ELSE "",
                     b.draft.created_at, b.draft.owner,
                     ListCopy(b.draft.column_ids), ListCopy(b.draft.task_ids))
    IN [vb |-> ts.vb,
        db |-> BoardDB((b.pid :> p), ts.columns, ts.tasks),
        raised |-> RaiseIfAny(ts.vb)]

(***************************************************************************)
(* ProjectScope.                                                           *)
(***************************************************************************)
MsgDefaultPriority(value) ==
    "default priority must be in " \o SortedAllowed \o " (got '" \o value \o "')"
MsgDefaultDuePast == "default due_date cannot be in the past"

\* no ProjectScope object yet
NoScope ==
    [exists |-> FALSE, entered |-> FALSE, default_assignee |-> None,
     default_priority |-> None, default_due |-> NoDate]

\* ProjectScope.__init__
NewScope == [NoScope EXCEPT !.exists = TRUE]

\* ProjectScope.assignee
ScAssignee(sc, value) == [sc EXCEPT !.default_assignee = Strip(value)]

\* ProjectScope.priority: the scope and the bag of its root after the call
ScPriority(sc, vb, value) ==
    [sc |-> [sc EXCEPT !.default_priority = value],
     vb |-> IF value \notin ALLOWED_PRIORITIES
            THEN VbAdd(vb, MsgDefaultPriority(value), "Scope", None, LocCaller)
            ELSE vb]

\* ProjectScope.due: the scope and the bag of its root after the call
ScDue(sc, vb, value, allow_past_due) ==
    [sc |-> [sc EXCEPT !.default_due = value],
     vb |-> IF (~allow_past_due) /\ value < Today
            THEN VbAdd(vb, MsgDefaultDuePast, "Scope", None, LocCaller)
            ELSE vb]

\* ProjectScope.task with the callback run before the defaults
ScTask_CallbackFirst(b, sc, tid, title, configure, column) ==
    LET tb == ConfigureTask(PbTask(b, tid, title, NoCallback, column), tid, configure)
        b1 == IF Truthy(sc.default_assignee) THEN TbAssignee(tb, tid, sc.default_assignee) ELSE tb
        b2 == IF Truthy(sc.default_priority) THEN TbPriority(b1, tid, sc.default_priority) ELSE b1
    IN IF sc.default_due /= NoDate THEN TbDue(b2, tid, sc.default_due) ELSE b2

\* ProjectScope.task: ProjectBuilder.task without callback, then the
\* defaults, then the callback
ScTask(b, sc, tid, title, configure, column) ==
    LET tb == PbTask(b, tid, title, NoCallback, column)
        b1 == IF Truthy(sc.default_assignee) THEN TbAssignee(tb, tid, sc.default_assignee) ELSE tb
        b2 == IF Truthy(sc.default_priority) THEN TbPriority(b1, tid, sc.default_priority) ELSE b1
        b3 == IF sc.default_due /= NoDate THEN TbDue(b2, tid, sc.default_due) ELSE b2
    IN ConfigureTask(b3, tid, configure)

(***************************************************************************)
(* The state machine: one action per call a client makes.                  *)
(***************************************************************************)
Sessions == 1..MaxSessions

\* what a build() call produced: the builder object it was called on (input),
\* the bag when raise_if_any is reached (vb), the dicts assembled by then
\* (db), the lines of the ValueError when it raises (error); status is Built
\* when build() returned db, Rejected when it raised, Open before any call
Outcome(status, input, vb, db, error) ==
    [status |-> status, input |-> input, vb |-> vb, db |-> db, error |-> error]

Open(b) == Outcome("Open", b, <<>>, EmptyDB, <<>>)

\* Python None where a TypedKey is expected
NoKey == [name |-> None, value_type |-> None]

\* no KeyRegistry call was made yet
NoReply == [op |-> "none", name |-> None, value_type |-> None, ret |-> NoKey, raised |-> None]

Init ==
    /\ counters = [k \in Kinds |-> 0]
    /\ pb = <<>>
    /\ scopes = <<>>
    /\ outcome = <<>>
    /\ nbuilds = <<>>
    /\ steps = <<>>
    /\ seen = <<>>
    /\ runs = <<>>
    /\ registry = <<>>
    /\ reply = NoReply

\* a call may record defects only while the bag holds fewer than MaxDefects
Bounded(b, b2) == Len(b2.vb) = Len(b.vb) \/ Len(b2.vb) <= MaxDefects

\* ProjectBuilder()
NewSession(s) ==
    /\ s \notin DOMAIN pb
    /\ s = Cardinality(DOMAIN pb) + 1
    /\ LET n == IdSeqNext(counters, "project") IN
        /\ counters' = n.counters
        /\ pb' = (s :> NewProjectBuilder(n.id)) @@ pb
        /\ outcome' = (s :> Open(NewProjectBuilder(n.id))) @@ outcome
    /\ scopes' = (s :> NoScope) @@ scopes
    /\ nbuilds' = (s :> 0) @@ nbuilds
    /\ UNCHANGED <<pipeline, keys>>

\* a call that changes only the builder object of session s
Update(s, b2) ==
    /\ s \in DOMAIN pb
    /\ Bounded(pb[s], b2)
    /\ pb' = [pb EXCEPT ![s] = b2]
    /\ UNCHANGED <<counters, scopes, outcome, nbuilds, pipeline, keys>>

\* builder.name(value)
SetName(s, value) == Update(s, PbName(pb[s], value))

\* builder.owner(value)
SetOwner(s, value) == Update(s, PbOwner(pb[s], value))

\* builder.allow_past_due(value)
SetAllowPastDue(s, value) == Update(s, PbAllowPastDue(pb[s], value))

\* builder.column(name, configure)
AddColumn(s, name, configure) ==
    /\ s \in DOMAIN pb
    /\ counters["column"] < MaxCols
    /\ LET n == IdSeqNext(counters, "column")
           b2 == PbColumn(pb[s], n.id, name, configure)
       IN /\ Bounded(pb[s], b2)
          /\ counters' = n.counters
          /\ pb' = [pb EXCEPT ![s] = b2]
    /\ UNCHANGED <<scopes, outcome, nbuilds, pipeline, keys>>

\* column_builder.name(value)
RenameColumn(s, cid, value) == Update(s, CbName(pb[s], cid, value))

\* column_builder.as_backlog()
AsBacklog(s, cid) == Update(s, CbAsBacklog(pb[s], cid))

\* builder.task(title, configure, column=column)
AddTask(s, title, configure, column) ==
    /\ s \in DOMAIN pb
    /\ counters["task"] < MaxTasks
    /\ LET n == IdSeqNext(counters, "task")
           b2 == PbTask(pb[s], n.id, title, configure, column)
       IN /\ Bounded(pb[s], b2)
          /\ counters' = n.counters
          /\ pb' = [pb EXCEPT ![s] = b2]
    /\ UNCHANGED <<scopes, outcome, nbuilds, pipeline, keys>>

\* a call on the task builder of tid
ConfigureCall(s, tid, c) == Update(s, TaskCall(pb[s], tid, c))

\* build() that discards the task drafts it has consumed
BuildEffect_Consumes(b, r) ==
    [b EXCEPT !.vb = r.vb, !.draft.task_ids = <<>>, !.tasks = <<>>]

\* build() that stores the resolved column id in each task draft
BuildEffect_WritesBack(b, r) ==
    [b EXCEPT !.vb = r.vb,
              !.tasks = [tid \in DOMAIN b.tasks |->
                            [b.tasks[tid] EXCEPT !.column_id = r.db.tasks[tid].column_id]]]

\* the builder object after build() produced r: only the bag has changed
BuildEffect(b, r) == [b EXCEPT !.vb = r.vb]

\* builder.build()
DoBuild(s) ==
    /\ s \in DOMAIN pb
    /\ nbuilds[s] < MaxBuilds
    /\ \E dups \in Orders(Duplicates(pb[s])) :
        LET r == Build(pb[s], dups) IN
        /\ pb' = [pb EXCEPT ![s] = BuildEffect(pb[s], r)]
        /\ outcome' = [outcome EXCEPT ![s] =
                IF r.raised
                THEN Outcome("Rejected", pb[s], r.vb, r.db, ErrorLines(r.vb))
                ELSE Outcome("Built", pb[s], r.vb, r.db, <<>>)]
    /\ nbuilds' = [nbuilds EXCEPT ![s] = @ + 1]
    /\ UNCHANGED <<counters, scopes, pipeline, keys>>

\* builder.scope()
MakeScope(s) ==
    /\ s \in DOMAIN pb
    /\ ~scopes[s].exists
    /\ scopes' = [scopes EXCEPT ![s] = NewScope]
    /\ UNCHANGED <<counters, pb, outcome, nbuilds, pipeline, keys>>

\* scope.assignee(value)
ScopeAssignee(s, value) ==
    /\ s \in DOMAIN pb
    /\ scopes[s].exists
    /\ scopes' = [scopes EXCEPT ![s] = ScAssignee(scopes[s], value)]
    /\ UNCHANGED <<counters, pb, outcome, nbuilds, pipeline, keys>>

\* scope.priority(value)
ScopePriority(s, value) ==
    /\ s \in DOMAIN pb
    /\ scopes[s].exists
    /\ LET r == ScPriority(scopes[s], pb[s].vb, value) IN
        /\ Bounded(pb[s], [pb[s] EXCEPT !.vb = r.vb])
        /\ scopes' = [scopes EXCEPT ![s] = r.sc]
        /\ pb' = [pb EXCEPT ![s].vb = r.vb]
    /\ UNCHANGED <<counters, outcome, nbuilds, pipeline, keys>>

\* scope.due(value)
ScopeDue(s, value) ==
    /\ s \in DOMAIN pb
    /\ scopes[s].exists
    /\ LET r == ScDue(scopes[s], pb[s].vb, value, pb[s].allow_past_due) IN
        /\ Bounded(pb[s], [pb[s] EXCEPT !.vb = r.vb])
        /\ scopes' = [scopes EXCEPT ![s] = r.sc]
        /\ pb' = [pb EXCEPT ![s].vb = r.vb]
    /\ UNCHANGED <<counters, outcome, nbuilds, pipeline, keys>>

\* `with scope as s:` is entered: __enter__
EnterScope(s) ==
    /\ s \in DOMAIN pb
    /\ scopes[s].exists /\ ~scopes[s].entered
    /\ scopes' = [scopes EXCEPT ![s].entered = TRUE]
    /\ UNCHANGED <<counters, pb, outcome, nbuilds, pipeline, keys>>

\* the with-block is left: __exit__
ExitScope(s) ==
    /\ s \in DOMAIN pb
    /\ scopes[s].exists /\ scopes[s].entered
    /\ scopes' = [scopes EXCEPT ![s].entered = FALSE]
    /\ UNCHANGED <<counters, pb, outcome, nbuilds, pipeline, keys>>

\* scope.task(title, configure, column=column)
ScopeTask(s, title, configure, column) ==
    /\ s \in DOMAIN pb
    /\ scopes[s].exists
    /\ counters["task"] < MaxTasks
    /\ LET n == IdSeqNext(counters, "task")
           b2 == ScTask(pb[s], scopes[s], n.id, title, configure, column)
       IN /\ Bounded(pb[s], b2)
          /\ counters' = n.counters
          /\ pb' = [pb EXCEPT ![s] = b2]
    /\ UNCHANGED <<scopes, outcome, nbuilds, pipeline, keys>>

(***************************************************************************)
(* Spec: one session; columns, tasks and their column references, build.   *)
(***************************************************************************)
ProjectNames == {"Sprint", ""}
ColumnNames == {"Backlog", "column_2", ""}
Titles == {"T", ""}
ColumnRefs == {None, "", "Backlog", "column_2", "Nowhere"}

ColumnIds == {IdStr("column", n) : n \in 1..MaxCols}
TaskIds == {IdStr("task", n) : n \in 1..MaxTasks}

\* the configure callbacks handed to task()
TaskCallbacks ==
    {NoCallback,
     <<Call("priority", "Urgent", NoDate, <<>>)>>,
     <<Call("due", None, Yesterday, <<>>)>>}

\* the calls made on a task builder after task() returned it
TaskCalls == {Call("in_column", c, NoDate, <<>>) : c \in ColumnRefs \ {None}}

\* the session accepts calls until build() was called
Configuring(s) == s \in DOMAIN pb /\ nbuilds[s] = 0

Next ==
    \/ NewSession(1)
    \/ \E v \in ProjectNames : Configuring(1) /\ SetName(1, v)
    \/ \E v \in BOOLEAN : Configuring(1) /\ SetAllowPastDue(1, v)
    \/ \E n \in ColumnNames : Configuring(1) /\ AddColumn(1, n, NoCallback)
    \/ \E cid \in ColumnIds, n \in ColumnNames :
            Configuring(1) /\ cid \in DOMAIN pb[1].columns /\ RenameColumn(1, cid, n)
    \/ \E t \in Titles, cb \in TaskCallbacks, c \in ColumnRefs :
            Configuring(1) /\ (t = "" => cb = NoCallback) /\ AddTask(1, t, cb, c)
    \/ \E tid \in TaskIds, c \in TaskCalls :
            Configuring(1) /\ tid \in DOMAIN pb[1].tasks /\ ConfigureCall(1, tid, c)
    \/ DoBuild(1)

Spec == Init /\ [][Next]_vars

(***************************************************************************)
(* Properties of build().  They read the record of the last build() call   *)
(* of a session: the builder it was called on and what it produced.        *)
(***************************************************************************)
Finished == {s \in DOMAIN outcome : outcome[s].status /= "Open"}

\* the defects the last build() call of session s recorded itself
Added(s) ==
    SubSeq(outcome[s].vb, Len(outcome[s].input.vb) + 1, Len(outcome[s].vb))

\* the number of entries of the sequence q that satisfy P
Count(q, P(_)) == Cardinality({i \in DOMAIN q : P(q[i])})

\* the columns of builder b whose draft name is the string ref
NamedColumns(b, ref) == {cid \in Range(b.draft.column_ids) : b.columns[cid].name = ref}

\* a string that passes the non-empty and length checks
ValidText(v) == v /= None /\ Strip(v) /= "" /\ Len(v) <= MAX_LEN

\* a given reference that names a column: its id, or the name of exactly one
RefResolves(b, ref) ==
    \/ ref \in Range(b.draft.column_ids)
    \/ Cardinality(NamedColumns(b, ref)) = 1

\* the column a resolving reference stands for
RefTarget(b, ref) ==
    IF ref \in Range(b.draft.column_ids) THEN ref
    ELSE CHOOSE cid \in NamedColumns(b, ref) : TRUE

\* the configuration of a session as C1 lists it; no call of the session
\* has recorded a defect (see C2), and the drafts satisfy every listed check
ValidConfig(b) ==
    /\ b.vb = <<>>
    /\ ValidText(b.draft.name)
    /\ b.draft.column_ids /= <<>>
    /\ \A cid \in Range(b.draft.column_ids) :
        /\ ValidText(b.columns[cid].name)
        /\ NamedColumns(b, b.columns[cid].name) = {cid}
    /\ \A tid \in Range(b.draft.task_ids) :
        /\ ValidText(b.tasks[tid].title)
        /\ b.tasks[tid].priority \in ALLOWED_PRIORITIES
        /\ b.tasks[tid].due_date = NoDate \/ b.allow_past_due \/ b.tasks[tid].due_date >= Today
        /\ ~Truthy(b.tasks[tid].column_id) \/ RefResolves(b, b.tasks[tid].column_id)

\* every id a snapshot mentions is a key of the map it refers to
Integrity(db, pid) ==
    /\ pid \in DOMAIN db.projects
    /\ Range(db.projects[pid].column_ids) \subseteq DOMAIN db.columns
    /\ Range(db.projects[pid].task_ids) \subseteq DOMAIN db.tasks
    /\ \A cid \in DOMAIN db.columns : Range(db.columns[cid].task_ids) \subseteq DOMAIN db.tasks
    /\ \A tid \in DOMAIN db.tasks : db.tasks[tid].column_id \in DOMAIN db.columns

C2_AllOrNothing ==
    \A s \in Finished :
        /\ outcome[s].status = "Built" <=> outcome[s].vb = <<>>
        /\ outcome[s].status = "Rejected" <=> outcome[s].vb /= <<>>
        /\ outcome[s].input.vb /= <<>> => outcome[s].status = "Rejected"
        /\ outcome[s].status = "Rejected" => outcome[s].error = ErrorLines(outcome[s].vb)

\* build() failed on drafts that satisfy every check, because of a defect a
\* setter had recorded before the field was overwritten
C2_Witness ==
    \E s \in Finished :
        /\ outcome[s].status = "Rejected"
        /\ ValidConfig([outcome[s].input EXCEPT !.vb = <<>>])
        /\ Added(s) = <<>>
        /\ Len(outcome[s].input.vb) = 1

\* the tasks of builder b whose reference is given, is no column id and is
\* not the name of exactly one column
UnknownRefTasks(b) ==
    {tid \in Range(b.draft.task_ids) :
        Truthy(b.tasks[tid].column_id) /\ ~RefResolves(b, b.tasks[tid].column_id)}

\* C3: for a task whose reference is no column id and not the name of
\* exactly one column, build() records exactly one 'unknown column' defect
\* for that task, places it in the first column when there is one, and fails.
\* (An empty-string reference counts as no reference, see C28.)
C3_UnknownColumnFallback ==
    \A s \in Finished :
        LET b == outcome[s].input IN
        \A tid \in UnknownRefTasks(b) :
            /\ Count(Added(s), LAMBDA e : e.object_kind = "Task" /\ e.object_id = tid) = 1
            /\ Count(Added(s), LAMBDA e :
                    e = ValidationError(MsgUnknownColumn(b.tasks[tid].column_id),
                                        "Task", tid, LocCaller)) = 1
            /\ outcome[s].status = "Rejected"
            /\ b.draft.column_ids /= <<>> =>
                /\ outcome[s].db.tasks[tid].column_id = b.draft.column_ids[1]
                /\ Count(outcome[s].db.columns[b.draft.column_ids[1]].task_ids,
                         LAMBDA x : x = tid) = 1
                /\ \A cid \in Range(b.draft.column_ids) \ {b.draft.column_ids[1]} :
                        tid \notin Range(outcome[s].db.columns[cid].task_ids)

\* two tasks with unresolvable references, one unknown and one ambiguous,
\* were built into a project with two columns
C3_Witness ==
    \E s \in Finished :
        LET b == outcome[s].input IN
        /\ Len(b.draft.column_ids) = 2
        /\ \E t1, t2 \in UnknownRefTasks(b) :
            /\ t1 /= t2
            /\ NamedColumns(b, b.tasks[t1].column_id) = {}
            /\ Cardinality(NamedColumns(b, b.tasks[t2].column_id)) = 2

\* C4: a reference that is a column id is kept; otherwise a reference that is
\* the name of exactly one column becomes that column's id; no defect is
\* recorded for the reference in either case; an id match wins over a name
\* match.
C4_ReferenceResolution ==
    \A s \in Finished :
        LET b == outcome[s].input IN
        \A tid \in Range(b.draft.task_ids) :
            LET ref == b.tasks[tid].column_id IN
            (Truthy(ref) /\ RefResolves(b, ref)) =>
                /\ outcome[s].db.tasks[tid].column_id = RefTarget(b, ref)
                /\ (ref \in Range(b.draft.column_ids) => outcome[s].db.tasks[tid].column_id = ref)
                /\ tid \in Range(outcome[s].db.columns[RefTarget(b, ref)].task_ids)
                /\ Count(Added(s), LAMBDA e : e.object_kind = "Task" /\ e.object_id = tid) = 0

\* a build with a reference that is the id of one column and the name of
\* another, and a reference resolved by name to a column that is not the first
C4_Witness ==
    \E s \in Finished :
        LET b == outcome[s].input IN
        \E t1, t2 \in Range(b.draft.task_ids) :
            /\ b.tasks[t1].column_id \in Range(b.draft.column_ids)
            /\ NamedColumns(b, b.tasks[t1].column_id) /= {}
            /\ NamedColumns(b, b.tasks[t1].column_id) /= {b.tasks[t1].column_id}
            /\ b.tasks[t2].column_id \notin Range(b.draft.column_ids)
            /\ Len(b.draft.column_ids) = 2
            /\ NamedColumns(b, b.tasks[t2].column_id) = {b.draft.column_ids[2]}

\* the names the columns of builder b carry
ColumnNamesOf(b) == {b.columns[cid].name : cid \in Range(b.draft.column_ids)}

\* C5: build() records exactly one duplicate-name defect for each name that
\* several columns share, none for a name of a single column, and fails when
\* a name is shared.
C5_OneDefectPerDuplicate ==
    \A s \in Finished :
        LET b == outcome[s].input IN
        /\ \A n \in ColumnNamesOf(b) :
            Count(Added(s), LAMBDA e :
                    e = ValidationError(MsgDuplicate(n), "Project", b.pid, LocCaller))
                = IF Cardinality(NamedColumns(b, n)) > 1 THEN 1 ELSE 0
        /\ (\E n \in ColumnNamesOf(b) : Cardinality(NamedColumns(b, n)) > 1)
                => outcome[s].status = "Rejected"

\* two columns named Backlog were built
C5_Witness ==
    \E s \in Finished :
        /\ Cardinality(NamedColumns(outcome[s].input, "Backlog")) = 2
        /\ outcome[s].status = "Rejected"

\* C6: build() of a session without columns fails, and the aggregate error
\* lists 'project must have at least one column'.
C6_NoColumnsRejected ==
    \A s \in Finished :
        LET b == outcome[s].input IN
        b.draft.column_ids = <<>> =>
            /\ outcome[s].status = "Rejected"
            /\ ErrStr(ValidationError(MsgNoColumns, "Project", b.pid, LocCaller))
                    \in Range(outcome[s].error)

\* a session with a name and a task but no column was built
C6_Witness ==
    \E s \in Finished :
        /\ outcome[s].input.draft.column_ids = <<>>
        /\ outcome[s].input.draft.task_ids /= <<>>
        /\ ValidText(outcome[s].input.draft.name)
        /\ outcome[s].status = "Rejected"

(***************************************************************************)
(* SpecSessions: several ProjectBuilder objects in one process.            *)
(***************************************************************************)
NextSessions ==
    \/ \E s \in Sessions : NewSession(s)
    \/ \E s \in Sessions : Configuring(s) /\ AddColumn(s, "Backlog", NoCallback)
    \/ \E s \in Sessions : Configuring(s) /\ AddTask(s, "T", NoCallback, None)
    \/ \E s \in Sessions : DoBuild(s)

SpecSessions == Init /\ [][NextSessions]_vars

\* the numbers n for which id is the n-th id of its kind
IdNums(kind, id) == {n \in 1..counters[kind] : IdStr(kind, n) = id}

\* the number that ends the id
IdNum(kind, id) == CHOOSE n \in IdNums(kind, id) : TRUE

\* the ids of one kind held by the builders, as (session, position) -> id
IssuedColumns ==
    {x \in (DOMAIN pb) \X (1..MaxCols) : x[2] <= Len(pb[x[1]].draft.column_ids)}
IssuedTasks ==
    {x \in (DOMAIN pb) \X (1..MaxTasks) : x[2] <= Len(pb[x[1]].draft.task_ids)}

ColumnIdAt(x) == pb[x[1]].draft.column_ids[x[2]]
TaskIdAt(x) == pb[x[1]].draft.task_ids[x[2]]

\* C7: the ids of one kind are pairwise distinct, their numbers increase
\* with creation order, and the count of a kind advances only with the ids
\* of that kind.
C7_IdsUniqueIncreasing ==
    /\ \A x \in IssuedColumns : Cardinality(IdNums("column", ColumnIdAt(x))) = 1
    /\ \A x \in IssuedTasks : Cardinality(IdNums("task", TaskIdAt(x))) = 1
    /\ \A x, y \in IssuedColumns : x /= y => ColumnIdAt(x) /= ColumnIdAt(y)
    /\ \A x, y \in IssuedTasks : x /= y => TaskIdAt(x) /= TaskIdAt(y)
    /\ \A s, r \in DOMAIN pb : s /= r => pb[s].pid /= pb[r].pid
    /\ \A x, y \in IssuedColumns :
        (x[1] = y[1] /\ x[2] < y[2]) =>
            IdNum("column", ColumnIdAt(x)) < IdNum("column", ColumnIdAt(y))
    /\ \A x, y \in IssuedTasks :
        (x[1] = y[1] /\ x[2] < y[2]) =>
            IdNum("task", TaskIdAt(x)) < IdNum("task", TaskIdAt(y))
    /\ counters["column"] = Cardinality(IssuedColumns)
    /\ counters["task"] = Cardinality(IssuedTasks)
    /\ counters["project"] = Cardinality(DOMAIN pb)

\* one session holds two columns and two tasks
C7_Witness ==
    \E s \in DOMAIN pb :
        /\ Len(pb[s].draft.column_ids) = 2
        /\ Len(pb[s].draft.task_ids) = 2

\* C8: in every session the project id ends in _1 and the i-th task of the
\* session has the id ending in _i, whatever other sessions did.
C8_SessionOwnsSequencer ==
    \A s \in DOMAIN pb :
        /\ pb[s].pid = IdStr("project", 1)
        /\ \A i \in DOMAIN pb[s].draft.task_ids :
                pb[s].draft.task_ids[i] = IdStr("task", i)
        /\ \A i \in DOMAIN pb[s].draft.column_ids :
                pb[s].draft.column_ids[i] = IdStr("column", i)

(***************************************************************************)
(* SpecScope: one session with a column and a scope.                       *)
(***************************************************************************)
ScopeAssignees == {" Alina", " "}
ScopePriorities == {"High", "Urgent"}
ScopeDues == {Tomorrow}

\* the configure callbacks handed to scope.task()
ScopeCallbacks ==
    {NoCallback,
     <<Call("priority", "Low", NoDate, <<>>)>>,
     <<Call("assignee", "Bob", NoDate, <<>>)>>,
     <<Call("due", None, Today + 2, <<>>)>>}

NextScope ==
    \/ NewSession(1)
    \/ Configuring(1) /\ AddColumn(1, "Backlog", NoCallback)
    \/ Configuring(1) /\ MakeScope(1)
    \/ \E v \in ScopeAssignees : Configuring(1) /\ ScopeAssignee(1, v)
    \/ \E v \in ScopePriorities : Configuring(1) /\ ScopePriority(1, v)
    \/ \E v \in ScopeDues : Configuring(1) /\ ScopeDue(1, v)
    \/ Configuring(1) /\ EnterScope(1)
    \/ Configuring(1) /\ ExitScope(1)
    \/ \E cb \in ScopeCallbacks : Configuring(1) /\ ScopeTask(1, "T", cb, None)
    \/ Configuring(1) /\ AddTask(1, "T", NoCallback, None)
    \/ DoBuild(1)

SpecScope == Init /\ [][NextScope]_vars

\* the id the next task() call gives the task
NextTaskId == IdStr("task", counters["task"] + 1)

\* the value the calls of a callback leave in a field: the argument of the
\* last call of method m, or dflt when the callback does not call m
RECURSIVE LastArg(_, _, _)
LastArg(calls, m, dflt) ==
    IF calls = <<>> THEN dflt
    ELSE LET c == calls[Len(calls)] IN
         IF c.m = m THEN (IF m = "due" THEN c.d ELSE c.s)
         ELSE LastArg(SubSeq(calls, 1, Len(calls) - 1), m, dflt)

\* C9: a task made by scope.task() ends with the callback's value in every
\* field the callback sets and with the scope's default in every other field
\* for which the scope holds a (non-empty) default; a field with neither
\* keeps the value of a new draft.
C9_DefaultsBeforeCallback ==
    [][\A cb \in ScopeCallbacks :
        ScopeTask(1, "T", cb, None) =>
            LET sc == scopes[1]
                t == pb'[1].tasks[NextTaskId]
            IN /\ t.priority = LastArg(cb, "priority",
                        IF Truthy(sc.default_priority) THEN sc.default_priority
                        ELSE DraftTask.priority)
               /\ t.assignee = LastArg(cb, "assignee",
                        IF Truthy(sc.default_assignee) THEN sc.default_assignee
                        ELSE DraftTask.assignee)
               /\ t.due_date = LastArg(cb, "due",
                        IF sc.default_due /= NoDate THEN sc.default_due
                        ELSE DraftTask.due_date)]_vars

\* under a scope with the defaults High and Alina, one task was made with a
\* callback that sets priority Low and one with no callback
C9_Witness ==
    /\ 1 \in DOMAIN pb
    /\ scopes[1].default_priority = "High"
    /\ scopes[1].default_assignee = "Alina"
    /\ \E t1, t2 \in DOMAIN pb[1].tasks :
        /\ pb[1].tasks[t1].priority = "Low" /\ pb[1].tasks[t1].assignee = "Alina"
        /\ pb[1].tasks[t2].priority = "High" /\ pb[1].tasks[t2].assignee = "Alina"

\* the task draft t holds every default the scope sc holds
HasDefaults(t, sc) ==
    /\ Truthy(sc.default_assignee) => t.assignee = sc.default_assignee
    /\ Truthy(sc.default_priority) => t.priority = sc.default_priority
    /\ sc.default_due /= NoDate => t.due_date = sc.default_due

\* the task draft t holds no default of the scope sc
HasNoDefaults(t, sc) ==
    /\ Truthy(sc.default_assignee) => t.assignee = DraftTask.assignee
    /\ Truthy(sc.default_priority) => t.priority = DraftTask.priority
    /\ sc.default_due /= NoDate => t.due_date = DraftTask.due_date

\* C10: a task made inside the with-block of a scope, by scope.task() or by
\* builder.task(), holds the scope's defaults; a task made before or after
\* the block holds none of them.
C10_DefaultsInsideWithBlock ==
    [][(ScopeTask(1, "T", NoCallback, None) \/ AddTask(1, "T", NoCallback, None)) =>
            IF scopes[1].entered
            THEN HasDefaults(pb'[1].tasks[NextTaskId], scopes[1])
            ELSE HasNoDefaults(pb'[1].tasks[NextTaskId], scopes[1])]_vars

(***************************************************************************)
(* SpecCopy: one session whose tasks are configured and copied from one    *)
(* another.                                                                *)
(***************************************************************************)
CopyTitles == {"T", "U", ""}

\* the configure callbacks handed to task(): none, one that sets every
\* optional field, one that sets an empty priority
CopyCallbacks ==
    {NoCallback,
     <<Call("description", "D", NoDate, <<>>), Call("assignee", " PM ", NoDate, <<>>),
       Call("priority", "High", NoDate, <<>>), Call("due", None, Tomorrow, <<>>)>>,
     <<Call("priority", "", NoDate, <<>>)>>}

\* the field lists handed to copy_from
FieldLists ==
    {DefaultCopyFields, <<"priority">>, <<"title", "due_date">>,
     <<"assignee", "description">>, <<>>}

NextCopy ==
    \/ NewSession(1)
    \/ \E t \in CopyTitles, cb \in CopyCallbacks, c \in {None, "Backlog"} :
            AddTask(1, t, cb, c)
    \/ \E tid \in TaskIds, other \in TaskIds, fl \in FieldLists :
            /\ 1 \in DOMAIN pb
            /\ {tid, other} \subseteq DOMAIN pb[1].tasks
            /\ ConfigureCall(1, tid, Call("copy_from", other, NoDate, fl))

SpecCopy == Init /\ [][NextCopy]_vars

\* the fields of a task draft
DraftFields == DOMAIN DraftTask

\* the draft o holds a value for field f: the field is not None, and for
\* priority (a plain string, never None) it is not empty
HoldsValue(o, f) ==
    CASE f = "priority" -> Truthy(o.priority)
      [] f = "due_date" -> o.due_date /= NoDate
      [] OTHER -> o[f] /= None

\* C11: copy_from(other, fields) leaves in every listed field for which the
\* source holds a value the source's value, and in every other field of the
\* target, and in every other draft, what was there before the call.
C11_CopyFromFrame ==
    [][\A tid \in TaskIds, other \in TaskIds, fl \in FieldLists :
        (/\ 1 \in DOMAIN pb
         /\ {tid, other} \subseteq DOMAIN pb[1].tasks
         /\ ConfigureCall(1, tid, Call("copy_from", other, NoDate, fl))) =>
            LET src == pb[1].tasks[other]
                old == pb[1].tasks[tid]
                new == pb'[1].tasks[tid]
            IN /\ \A f \in DraftFields :
                    new[f] = IF f \in Range(fl) /\ HoldsValue(src, f)
                             THEN src[f] ELSE old[f]
               /\ \A t \in DOMAIN pb[1].tasks \ {tid} : pb'[1].tasks[t] = pb[1].tasks[t]
               /\ pb'[1].draft = pb[1].draft
               /\ pb'[1].columns = pb[1].columns]_vars

\* task_2 took only the priority of task_1, which holds a description and an
\* assignee as well: no task() call leaves priority High without them
C11_Witness ==
    /\ 1 \in DOMAIN pb
    /\ {"task_1", "task_2"} \subseteq DOMAIN pb[1].tasks
    /\ pb[1].tasks["task_1"].priority = "High"
    /\ pb[1].tasks["task_1"].description = "D"
    /\ pb[1].tasks["task_2"].priority = "High"
    /\ pb[1].tasks["task_2"].description = None
    /\ pb[1].tasks["task_2"].assignee = None
    /\ pb[1].tasks["task_2"].title = "U"

(***************************************************************************)
(* Properties of the aggregate error and of the checks of build(), read    *)
(* from the record of the last build() call under Spec.                    *)
(***************************************************************************)
\* the sequence q holds an entry with message msg
HasMessage(q, msg) == \E i \in DOMAIN q : q[i].message = msg

\* the sequence q holds an entry with message msg about the entity kind(oid)
HasEntry(q, msg, kind, oid) ==
    \E i \in DOMAIN q :
        q[i].message = msg /\ q[i].object_kind = kind /\ q[i].object_id = oid

\* C13: raise_if_any on an empty bag returns and the bag stays empty; on a
\* non-empty bag it raises one error with one line per entry, in the order
\* of the bag, and the bag is afterwards what it was.
C13_RaiseIfAny ==
    \A s \in Finished :
        /\ outcome[s].vb = <<>> =>
                /\ outcome[s].status = "Built"
                /\ outcome[s].error = <<>>
                /\ pb[s].vb = <<>>
        /\ outcome[s].vb /= <<>> =>
                /\ outcome[s].status = "Rejected"
                /\ Len(outcome[s].error) = Len(outcome[s].vb)
                /\ \A i \in DOMAIN outcome[s].vb :
                        outcome[s].error[i] = ErrStr(outcome[s].vb[i])
                /\ pb[s].vb = outcome[s].vb

\* build() raised on a bag of three or more entries, the first one recorded
\* by a setter and the others by build()
C13_Witness ==
    \E s \in Finished :
        /\ Len(outcome[s].input.vb) = 1
        /\ Len(outcome[s].vb) >= 3
        /\ outcome[s].vb[2] /= outcome[s].vb[3]
        /\ Len(outcome[s].error) = Len(outcome[s].vb)

\* C17: every task build() assembles has a priority of the enumeration; a
\* task whose draft priority is outside it is assembled with Normal, and
\* the bag holds the defect build() recorded for that priority.
C17_PriorityInEnumeration ==
    \A s \in Finished :
        \A tid \in Range(outcome[s].input.draft.task_ids) :
            LET p == outcome[s].input.tasks[tid].priority IN
            /\ outcome[s].db.tasks[tid].priority \in ALLOWED_PRIORITIES
            /\ p \in ALLOWED_PRIORITIES => outcome[s].db.tasks[tid].priority = p
            /\ p \notin ALLOWED_PRIORITIES =>
                    /\ outcome[s].db.tasks[tid].priority = "Normal"
                    /\ HasMessage(Added(s), MsgNotInSet("task[" \o tid \o "].priority", p))
                    /\ outcome[s].status = "Rejected"

\* build() ran on two tasks, one with priority Urgent
C17_Witness ==
    \E s \in Finished :
        /\ Len(outcome[s].input.draft.task_ids) = 2
        /\ \E tid \in Range(outcome[s].input.draft.task_ids) :
            /\ outcome[s].input.tasks[tid].priority = "Urgent"
            /\ outcome[s].db.tasks[tid].priority = "Normal"

\* the tasks of builder b whose due date is before today
PastDueTasks(b) ==
    {tid \in Range(b.draft.task_ids) :
        b.tasks[tid].due_date /= NoDate /\ b.tasks[tid].due_date < Today}

\* C18: the bag at the end of build() holds a due-date defect exactly when
\* some task is due before today and the project does not allow past due
\* dates, whatever the order of allow_past_due() and due().
C18_PastDuePolicyOfProject ==
    \A s \in Finished :
        HasMessage(outcome[s].vb, MsgDuePast) <=>
            (~outcome[s].input.allow_past_due /\ PastDueTasks(outcome[s].input) /= {})

\* the checks of build() that the builder b violates, as the messages
\* build() records for them
ViolatedChecks(b) ==
    (IF Truthy(b.draft.name) THEN {} ELSE {MsgNonEmpty("project.name")})
    \cup (IF b.draft.column_ids = <<>> THEN {MsgNoColumns} ELSE {})
    \cup {MsgDuplicate(n) : n \in Duplicates(b)}
    \cup {MsgNonEmpty("column[" \o cid \o "].name") :
            cid \in {c \in Range(b.draft.column_ids) :
                        b.columns[c].name = None \/ Strip(b.columns[c].name) = ""}}
    \cup {MsgTooLong("column[" \o cid \o "].name") :
            cid \in {c \in Range(b.draft.column_ids) :
                        /\ b.columns[c].name /= None /\ Strip(b.columns[c].name) /= ""
                        /\ Len(b.columns[c].name) > MAX_LEN}}
    \cup {MsgNonEmpty("task[" \o tid \o "].title") :
            tid \in {t \in Range(b.draft.task_ids) :
                        b.tasks[t].title = None \/ Strip(b.tasks[t].title) = ""}}
    \cup {MsgNotInSet("task[" \o tid \o "].priority", b.tasks[tid].priority) :
            tid \in {t \in Range(b.draft.task_ids) :
                        b.tasks[t].priority \notin ALLOWED_PRIORITIES}}
    \cup (IF b.allow_past_due \/ PastDueTasks(b) = {} THEN {} ELSE {MsgDuePast})
    \cup {MsgUnknownColumn(b.tasks[tid].column_id) : tid \in UnknownRefTasks(b)}
    \cup (IF b.draft.column_ids = <<>>
             /\ \E t \in Range(b.draft.task_ids) : ~Truthy(b.tasks[t].column_id)
          THEN {MsgTaskNoColumn} ELSE {})

\* C19: build() records the defect of every check the session violates,
\* for every column and every task, before it raises, and the error it
\* raises lists all of them together with the defects recorded earlier.
C19_AllDefectsReported ==
    \A s \in Finished :
        /\ \A m \in ViolatedChecks(outcome[s].input) : HasMessage(Added(s), m)
        /\ \A tid \in UnknownRefTasks(outcome[s].input) :
                HasEntry(Added(s), MsgUnknownColumn(outcome[s].input.tasks[tid].column_id),
                         "Task", tid)
        /\ Len(Added(s)) >= Cardinality(ViolatedChecks(outcome[s].input))
        /\ outcome[s].vb /= <<>> =>
                /\ outcome[s].status = "Rejected"
                /\ \A i \in DOMAIN outcome[s].vb :
                        ErrStr(outcome[s].vb[i]) \in Range(outcome[s].error)

\* build() raised an error that lists the empty title of task_1 and the
\* unknown column of task_2
C19_Witness ==
    \E s \in Finished :
        /\ outcome[s].status = "Rejected"
        /\ HasMessage(Added(s), MsgNonEmpty("task[task_1].title"))
        /\ HasEntry(Added(s), MsgUnknownColumn("Nowhere"), "Task", "task_2")
        /\ \E i, j \in DOMAIN outcome[s].error :
            /\ i < j
            /\ outcome[s].error[i] =
                    "[" \o LocNew \o "] Project(-): 'task[task_1].title' must be non-empty"
            /\ outcome[s].error[j] =
                    "[" \o LocCaller \o "] Task(task_2): unknown column 'Nowhere' for task"

\* the messages of the defects about a field of task tid
TaskFieldMessages(tid) ==
    {MsgNonEmpty("task.title"), MsgTooLong("task.title"),
     MsgNonEmpty("task[" \o tid \o "].title"), MsgTooLong("task[" \o tid \o "].title"),
     MsgMustBeSet("task.priority"), MsgMustBeSet("task[" \o tid \o "].priority"),
     MsgDuePast}
    \cup {MsgNotInSet("task.priority", p) : p \in {"Urgent", ""}}
    \cup {MsgNotInSet("task[" \o tid \o "].priority", p) : p \in {"Urgent", ""}}

\* C20: every entry of the aggregate error names the entity it is about: an
\* entry of kind Project, Column or Task carries that entity's id, an entry
\* of kind Project the project's id, and every defect of a task field is an
\* entry of kind Task.
C20_DefectsNameTheirEntity ==
    \A s \in Finished :
        \A i \in DOMAIN outcome[s].vb :
            LET e == outcome[s].vb[i] IN
            /\ e.object_kind \in {"Project", "Column", "Task"} => Truthy(e.object_id)
            /\ e.object_kind = "Project" => e.object_id = outcome[s].input.pid
            /\ (\E tid \in Range(outcome[s].input.draft.task_ids) :
                    e.message \in TaskFieldMessages(tid) \ {MsgDuePast})
                    => e.object_kind = "Task"
            /\ e.message = MsgDuePast => e.object_kind = "Task"

(***************************************************************************)
(* task() without a column argument.                                       *)
(***************************************************************************)
\* the entries the step adds to the bag of session s
NewEntries(s) == SubSeq(pb'[s].vb, Len(pb[s].vb) + 1, Len(pb'[s].vb))

\* the tasks of builder b that hold no column reference
UnplacedTasks(b) == {tid \in Range(b.draft.task_ids) : ~Truthy(b.tasks[tid].column_id)}

\* C15 (as amended): task() without a column argument creates the draft and
\* gives it the id of the project's first column when the project has a
\* column at that moment; when it has none the call leaves the reference
\* unset and records no defect for it.  build() places a task without
\* reference in the first column the project has by then, and records
\* "task has no column and project has no columns" only when there is none.
C15_TaskWithoutColumn ==
    /\ [][\A t \in Titles, cb \in TaskCallbacks :
            AddTask(1, t, cb, None) =>
                LET tid == NextTaskId
                    cols == pb[1].draft.column_ids
                IN /\ tid \notin DOMAIN pb[1].tasks
                   /\ pb'[1].draft.task_ids = Append(pb[1].draft.task_ids, tid)
                   /\ pb'[1].tasks[tid].title = t
                   /\ pb'[1].tasks[tid].column_id = IF cols /= <<>> THEN cols[1] ELSE None
                   /\ ~HasMessage(NewEntries(1), MsgTaskNoColumn)
                   /\ (ValidText(t) /\ cb = NoCallback) => pb'[1].vb = pb[1].vb]_vars
    /\ [](\A s \in Finished :
            \A tid \in UnplacedTasks(outcome[s].input) :
                LET cols == outcome[s].input.draft.column_ids IN
                IF cols /= <<>>
                THEN /\ outcome[s].db.tasks[tid].column_id = cols[1]
                     /\ ~HasMessage(Added(s), MsgTaskNoColumn)
                ELSE /\ outcome[s].db.tasks[tid].column_id = UnknownColumnId
                     /\ HasEntry(Added(s), MsgTaskNoColumn, "Task", tid))

\* a task made before the project had a column was built into the first of
\* two columns without any defect, next to a task made after the columns
C15_Witness ==
    \E s \in Finished :
        /\ outcome[s].status = "Built"
        /\ outcome[s].input.draft.column_ids = <<"column_1", "column_2">>
        /\ outcome[s].input.draft.task_ids = <<"task_1", "task_2">>
        /\ outcome[s].input.tasks["task_1"].column_id = None
        /\ outcome[s].db.tasks["task_1"].column_id = "column_1"
        /\ outcome[s].input.tasks["task_2"].column_id = "column_1"

\* C15 as stated: task() without a column argument gives the draft the id
\* of the first column when there is one, and otherwise records a defect
\* and still creates the draft.
C15_TaskCallRecordsDefect ==
    [][\A t \in Titles, cb \in TaskCallbacks :
        AddTask(1, t, cb, None) =>
            LET tid == NextTaskId
                cols == pb[1].draft.column_ids
            IN /\ pb'[1].draft.task_ids = Append(pb[1].draft.task_ids, tid)
               /\ cols /= <<>> => pb'[1].tasks[tid].column_id = cols[1]
               /\ cols = <<>> => Len(pb'[1].vb) > Len(pb[1].vb)]_vars

(***************************************************************************)
(* SpecLife: one session that goes on receiving calls after build().       *)
(***************************************************************************)
LifeNames == {"Sprint", ""}
LifeColumnNames == {"Done", ""}
LifeCalls ==
    {Call("priority", "Urgent", NoDate, <<>>), Call("priority", "High", NoDate, <<>>)}
LifePriorities == {"High", "Urgent"}

NextLife ==
    \/ NewSession(1)
    \/ \E v \in LifeNames : SetName(1, v)
    \/ AddColumn(1, "Backlog", NoCallback)
    \/ \E cid \in ColumnIds, n \in LifeColumnNames :
            /\ 1 \in DOMAIN pb /\ cid \in DOMAIN pb[1].columns
            /\ RenameColumn(1, cid, n)
    \/ AddTask(1, "T", NoCallback, None)
    \/ \E tid \in TaskIds, c \in LifeCalls :
            /\ 1 \in DOMAIN pb /\ tid \in DOMAIN pb[1].tasks
            /\ ConfigureCall(1, tid, c)
    \/ MakeScope(1)
    \/ \E v \in LifePriorities : ScopePriority(1, v)
    \/ ScopeTask(1, "T", NoCallback, None)
    \/ DoBuild(1)

SpecLife == Init /\ [][NextLife]_vars

\* p is a prefix of q
IsPrefix(p, q) == Len(p) <= Len(q) /\ SubSeq(q, 1, Len(p)) = p

\* C12: the bag of a session only grows at its end: errors() before any step
\* is a prefix of errors() after it, whichever builder or scope of the
\* session the step calls, and a defect found by a column builder, a task
\* builder or a scope is the one entry the step adds to that bag.
C12_LedgerSharedAppendOnly ==
    [][/\ \A s \in DOMAIN pb : IsPrefix(Errors(pb[s].vb), Errors(pb'[s].vb))
       /\ \A cid \in ColumnIds :
            (1 \in DOMAIN pb /\ cid \in DOMAIN pb[1].columns /\ RenameColumn(1, cid, "")) =>
                NewEntries(1) = <<ValidationError(MsgNonEmpty("column.name"),
                                                  "Column", cid, LocColumn)>>
       /\ \A tid \in TaskIds :
            (/\ 1 \in DOMAIN pb /\ tid \in DOMAIN pb[1].tasks
             /\ ConfigureCall(1, tid, Call("priority", "Urgent", NoDate, <<>>))) =>
                NewEntries(1) = <<ValidationError(MsgNotInSet("task.priority", "Urgent"),
                                                  "Task", tid, LocTask)>>
       /\ ScopePriority(1, "Urgent") =>
                NewEntries(1) = <<ValidationError(MsgDefaultPriority("Urgent"),
                                                  "Scope", None, LocCaller)>>
       /\ DoBuild(1) => Errors(pb'[1].vb) = Errors(pb[1].vb) \o Added(1)']_vars

\* the bag holds a defect recorded by the scope followed by defects recorded
\* by build(), and the error build() raised lists them in that order
C12_Witness ==
    /\ 1 \in Finished
    /\ Len(pb[1].vb) >= 3
    /\ pb[1].vb[1].object_kind = "Scope"
    /\ pb[1].vb[2].object_kind = "Project"
    /\ \E i \in DOMAIN pb[1].vb : pb[1].vb[i].object_kind = "Task"
    /\ outcome[1].error = ErrorLines(pb[1].vb)

\* the drafts of a builder object
Drafts(b) == [draft |-> b.draft, columns |-> b.columns, tasks |-> b.tasks]

\* C14: once build() has been called on a session, its drafts are what that
\* build() consumed: no later call changes them.
C14_NoMutationAfterBuild ==
    \A s \in Finished : Drafts(pb[s]) = Drafts(outcome[s].input)

\* the snapshot of session s as a client holding it reads it now
SnapshotNow(s) ==
    LET pid == outcome[s].input.pid IN
    [outcome[s].db EXCEPT
        !.projects[pid].column_ids =
            IF @ = AliasOfDraft THEN pb[s].draft.column_ids ELSE @,
        !.projects[pid].task_ids =
            IF @ = AliasOfDraft THEN pb[s].draft.task_ids ELSE @]

\* C16: a snapshot build() returned reads, after any later call on the
\* session, as build() assembled it from the drafts it was called on.
C16_SnapshotIndependent ==
    \A s \in Finished :
        outcome[s].status = "Built" =>
            LET b == outcome[s].input
                db == SnapshotNow(s)
            IN /\ DOMAIN db.projects = {b.pid}
               /\ db.projects[b.pid].name = b.draft.name
               /\ db.projects[b.pid].column_ids = b.draft.column_ids
               /\ db.projects[b.pid].task_ids = b.draft.task_ids
               /\ DOMAIN db.columns = Range(b.draft.column_ids)
               /\ DOMAIN db.tasks = Range(b.draft.task_ids)
               /\ \A cid \in DOMAIN db.columns :
                    /\ db.columns[cid].id = cid
                    /\ db.columns[cid].name = b.columns[cid].name
                    /\ db.columns[cid].task_ids =
                            SelectSeq(b.draft.task_ids,
                                      LAMBDA tid : db.tasks[tid].column_id = cid)
               /\ \A tid \in DOMAIN db.tasks :
                    /\ db.tasks[tid].id = tid
                    /\ db.tasks[tid].title = b.tasks[tid].title
                    /\ db.tasks[tid].priority = b.tasks[tid].priority
                    /\ db.tasks[tid].column_id =
                            IF Truthy(b.tasks[tid].column_id)
                            THEN RefTarget(b, b.tasks[tid].column_id)
                            ELSE b.draft.column_ids[1]

\* after build() returned a snapshot the session got another column and
\* another task, a column was renamed and a task changed its priority
C16_Witness ==
    \E s \in Finished :
        /\ outcome[s].status = "Built"
        /\ Len(outcome[s].input.draft.column_ids) = 1
        /\ Len(outcome[s].input.draft.task_ids) = 1
        /\ Len(pb[s].draft.column_ids) = 2
        /\ Len(pb[s].draft.task_ids) = 2
        /\ pb[s].columns["column_1"].name = "Done"
        /\ pb[s].tasks["task_1"].priority = "High"
        /\ outcome[s].db.columns["column_1"].name = "Backlog"
        /\ outcome[s].db.tasks["task_1"].priority = "Normal"

(***************************************************************************)
(* What build() does to the builder it is called on, and a second call.    *)
(***************************************************************************)
\* C22: build() changes nothing of the builder but the bag, which it only
\* extends: the project draft, the column and task drafts with the column
\* references the tasks store, the past-due flag, the id counters and the
\* scope are as before the call, and the call ends with a snapshot and no
\* error, or with the aggregate error listing the bag.
C22_BuildOnlyWritesLedger ==
    [][\A s \in Sessions :
        DoBuild(s) =>
            /\ Drafts(pb'[s]) = Drafts(pb[s])
            /\ pb'[s].allow_past_due = pb[s].allow_past_due
            /\ pb'[s] = [pb[s] EXCEPT !.vb = pb'[s].vb]
            /\ IsPrefix(pb[s].vb, pb'[s].vb)
            /\ counters' = counters
            /\ scopes' = scopes
            /\ \/ /\ outcome'[s].status = "Built"
                  /\ outcome'[s].error = <<>>
                  /\ pb[s].pid \in DOMAIN outcome'[s].db.projects
               \/ /\ outcome'[s].status = "Rejected"
                  /\ outcome'[s].error = ErrorLines(pb'[s].vb)
                  /\ outcome'[s].error /= <<>>]_vars

\* build() returned a snapshot in which task_1 is in column_1, and the draft
\* of task_1 still stores the name it was given as its column reference
C22_Witness ==
    \E s \in Finished :
        /\ outcome[s].status = "Built"
        /\ "task_1" \in DOMAIN outcome[s].db.tasks
        /\ outcome[s].db.tasks["task_1"].column_id = "column_1"
        /\ pb[s].tasks["task_1"].column_id = "Backlog"
        /\ pb[s].columns["column_1"].name = "Backlog"

\* C27: a build() called directly after a build() of the same session (in
\* Spec no other call follows a build()) returns an equal snapshot and
\* leaves the bag empty when the first one returned a snapshot, and raises
\* again with a bag that extends the earlier one when the first one raised.
C27_BuildTwice ==
    [][\A s \in Sessions :
        (DoBuild(s) /\ nbuilds[s] >= 1) =>
            /\ outcome[s].status = "Built" =>
                    /\ outcome'[s].status = "Built"
                    /\ outcome'[s].db = outcome[s].db
                    /\ pb'[s].vb = <<>>
            /\ outcome[s].status = "Rejected" =>
                    /\ outcome'[s].status = "Rejected"
                    /\ IsPrefix(pb[s].vb, pb'[s].vb)
                    /\ pb'[s].vb /= <<>>]_vars

\* the second build() of a session with two columns and two tasks returned
\* a snapshot
C27_Witness ==
    \E s \in Finished :
        /\ nbuilds[s] = 2
        /\ outcome[s].status = "Built"
        /\ Len(outcome[s].db.projects[outcome[s].input.pid].task_ids) = 2
        /\ Len(outcome[s].db.projects[outcome[s].input.pid].column_ids) = 2
        /\ outcome[s].vb = <<>>

(***************************************************************************)
(* SpecColumns: one session whose columns get valid, empty, blank and too  *)
(* long names, with as_backlog called in the callback and on the builder.  *)
(***************************************************************************)
ColumnNamesAny == {"Backlog", "Todo", "", " ", LongName}
ColumnCallbacks == {NoCallback, <<Call("as_backlog", None, NoDate, <<>>)>>}
ColumnRefsAny == {None, " ", "Todo", LongName}

NextColumns ==
    \/ NewSession(1)
    \/ Configuring(1) /\ SetName(1, "Sprint")
    \/ \E n \in ColumnNamesAny, cb \in ColumnCallbacks :
            Configuring(1) /\ AddColumn(1, n, cb)
    \/ \E cid \in ColumnIds :
            Configuring(1) /\ cid \in DOMAIN pb[1].columns /\ AsBacklog(1, cid)
    \/ \E c \in ColumnRefsAny : Configuring(1) /\ AddTask(1, "T", NoCallback, c)
    \/ DoBuild(1)

SpecColumns == Init /\ [][NextColumns]_vars

\* C21: as_backlog() called on the builder of any column changes nothing:
\* the drafts, the column list and the bag of the session are as before;
\* and column(name, cb) with a callback that calls as_backlog() leaves the
\* builder as column(name) without callback does, whatever the name.
C21_AsBacklogNoEffect ==
    [][/\ \A cid \in ColumnIds :
            (1 \in DOMAIN pb /\ cid \in DOMAIN pb[1].columns /\ AsBacklog(1, cid)) =>
                /\ pb' = pb
                /\ counters' = counters
                /\ outcome' = outcome
       /\ \A n \in ColumnNamesAny :
            AddColumn(1, n, <<Call("as_backlog", None, NoDate, <<>>)>>) =>
                LET cid == IdStr("column", counters["column"] + 1) IN
                /\ pb'[1].columns[cid].name = n
                /\ pb'[1].draft.column_ids = Append(pb[1].draft.column_ids, cid)
                /\ pb'[1] = PbColumn(pb[1], cid, n, NoCallback)]_vars

\* the session has a column named Todo and a column with an empty name, the
\* one defect in the bag is that of the name setter of the second
C21_Witness ==
    /\ 1 \in DOMAIN pb
    /\ pb[1].draft.column_ids = <<"column_1", "column_2">>
    /\ pb[1].columns["column_1"].name = "Todo"
    /\ pb[1].columns["column_2"].name = ""
    /\ Len(pb[1].vb) = 1
    /\ pb[1].vb[1].object_id = "column_2"
    /\ ENABLED AsBacklog(1, "column_1")
    /\ ENABLED AsBacklog(1, "column_2")

\* C24: build() gives every column whose draft name fails the name check
\* (None, empty, blank or longer than MAX_LEN) the name <invalid:cid> and
\* records a defect for it, and gives every other column its draft name.
C24_PlaceholderForInvalidName ==
    \A s \in Finished :
        \A cid \in Range(outcome[s].input.draft.column_ids) :
            LET n == outcome[s].input.columns[cid].name IN
            IF ValidText(n)
            THEN outcome[s].db.columns[cid].name = n
            ELSE /\ outcome[s].db.columns[cid].name = InvalidName(cid)
                 /\ \E i \in DOMAIN Added(s) :
                        Added(s)[i].message \in
                            {MsgNonEmpty("column[" \o cid \o "].name"),
                             MsgTooLong("column[" \o cid \o "].name")}

(***************************************************************************)
(* The lists of a snapshot.                                                *)
(***************************************************************************)
\* the ids of a kind in the order IdSeq issued them, up to the n-th
Issued(kind, n) == [i \in 1..n |-> IdStr(kind, i)]

\* the number of times x occurs in the sequence q
Occurrences(q, x) == Cardinality({i \in DOMAIN q : q[i] = x})

\* C23: in a snapshot build() returned, the project lists every column and
\* every task of the session in the order they were created, each task id
\* occurs once in the list of the column its column_id names and in no
\* other list, and each column lists its tasks in the order of creation.
C23_SnapshotLists ==
    \A s \in Finished :
        outcome[s].status = "Built" =>
            LET db == outcome[s].db
                p == db.projects[outcome[s].input.pid]
            IN /\ p.column_ids = Issued("column", counters["column"])
               /\ p.task_ids = Issued("task", counters["task"])
               /\ Range(p.column_ids) = DOMAIN db.columns
               /\ Range(p.task_ids) = DOMAIN db.tasks
               /\ \A tid \in DOMAIN db.tasks, cid \in DOMAIN db.columns :
                    Occurrences(db.columns[cid].task_ids, tid) =
                        IF db.tasks[tid].column_id = cid THEN 1 ELSE 0
               /\ \A tid \in DOMAIN db.tasks : db.tasks[tid].column_id \in DOMAIN db.columns
               /\ \A cid \in DOMAIN db.columns :
                    db.columns[cid].task_ids =
                        SelectSeq(p.task_ids, LAMBDA tid : db.tasks[tid].column_id = cid)

\* a snapshot with two columns in which the first column holds both tasks,
\* the first by fallback and the second by the name it was given
C23_Witness ==
    \E s \in Finished :
        /\ outcome[s].status = "Built"
        /\ outcome[s].db.projects[outcome[s].input.pid].column_ids = <<"column_1", "column_2">>
        /\ outcome[s].db.columns["column_1"].task_ids = <<"task_1", "task_2">>
        /\ outcome[s].db.columns["column_2"].task_ids = <<>>
        /\ outcome[s].input.tasks["task_2"].column_id = "Backlog"

(***************************************************************************)
(* The project name at build().                                            *)
(***************************************************************************)
\* the entries of the bag q that say the project name is empty
NameDefects(q) ==
    Count(q, LAMBDA x : x.message = MsgNonEmpty("project.name"))

\* C25: a build() called on a project draft whose name is None or empty
\* records the project-name defect as its first entry and raises, whatever
\* the bag held: the bag then has one such entry more than before; a
\* build() called on a draft with a name records no such entry.
C25_ProjectNameAtBuild ==
    \A s \in Finished :
        LET b == outcome[s].input IN
        IF ~Truthy(b.draft.name)
        THEN /\ outcome[s].status = "Rejected"
             /\ Added(s) /= <<>>
             /\ Added(s)[1] = ValidationError(MsgNonEmpty("project.name"),
                                              "Project", None, b.loc)
             /\ NameDefects(outcome[s].vb) = NameDefects(b.vb) + 1
             /\ "[" \o b.loc \o "] Project(-): 'project.name' must be non-empty"
                    \in Range(outcome[s].error)
        ELSE NameDefects(outcome[s].vb) = NameDefects(b.vb)

\* name('') recorded the defect, the first build() recorded it again and
\* raised with both entries
C25_Witness ==
    \E s \in Finished :
        /\ nbuilds[s] = 1
        /\ outcome[s].input.draft.name = ""
        /\ NameDefects(outcome[s].input.vb) = 1
        /\ NameDefects(outcome[s].vb) = 2
        /\ outcome[s].status = "Rejected"
        /\ Len(outcome[s].error) >= 2

(***************************************************************************)
(* Column references: stored as given, resolved by build().                *)
(***************************************************************************)
\* the entries of the bag q about the column reference of a task
ReferenceDefects(q) ==
    SelectSeq(q, LAMBDA x : x.message = MsgTaskNoColumn
                            \/ \E r \in ColumnRefs \ {None} : x.message = MsgUnknownColumn(r))

\* C28: build() treats a task whose stored reference is the empty string
\* as a task without reference: with a column in the project the task is in
\* the first column and build() records no defect about its reference; with
\* no column it records 'task has no column and project has no columns'.
C28_EmptyReferenceIsMissing ==
    \A s \in Finished :
        LET b == outcome[s].input IN
        \A tid \in Range(b.draft.task_ids) :
            b.tasks[tid].column_id = "" =>
                IF b.draft.column_ids /= <<>>
                THEN /\ outcome[s].db.tasks[tid].column_id = b.draft.column_ids[1]
                     /\ tid \in Range(outcome[s].db.columns[b.draft.column_ids[1]].task_ids)
                     /\ \A i \in DOMAIN Added(s) :
                            Added(s)[i].object_id = tid =>
                                Added(s)[i] \notin Range(ReferenceDefects(Added(s)))
                ELSE HasEntry(Added(s), MsgTaskNoColumn, "Task", tid)

\* build() returned a snapshot for a session whose only task was created
\* with column='' when the project had two columns
C28_Witness ==
    \E s \in Finished :
        /\ outcome[s].status = "Built"
        /\ outcome[s].input.draft.task_ids = <<"task_1">>
        /\ outcome[s].input.tasks["task_1"].column_id = ""
        /\ outcome[s].db.columns["column_1"].task_ids = <<"task_1">>
        /\ Len(outcome[s].input.draft.column_ids) = 2

\* C26: task(column=c) and in_column(c) store c as given and no call but
\* build() changes a stored reference or records a defect about one;
\* build() resolves the stored references against the columns and names of
\* the drafts it is called on: a reference that is the id of a column or
\* the name of exactly one column gives that column and no defect, a task
\* without reference goes to the first column with no defect when there is
\* one, and any other given reference is recorded as unknown.
C26_ResolvedAtBuild ==
    /\ [][/\ \A t \in Titles, cb \in TaskCallbacks, c \in ColumnRefs \ {None} :
                AddTask(1, t, cb, c) => pb'[1].tasks[NextTaskId].column_id = c
          /\ \A t \in Titles, cb \in TaskCallbacks :
                (AddTask(1, t, cb, None) /\ pb[1].draft.column_ids = <<>>) =>
                    pb'[1].tasks[NextTaskId].column_id = None
          /\ \A tid \in TaskIds, c \in TaskCalls :
                (1 \in DOMAIN pb /\ tid \in DOMAIN pb[1].tasks /\ ConfigureCall(1, tid, c)) =>
                    pb'[1].tasks[tid].column_id = c.s
          /\ (1 \in DOMAIN pb /\ nbuilds' = nbuilds) =>
                /\ ReferenceDefects(NewEntries(1)) = <<>>
                /\ \A tid \in DOMAIN pb[1].tasks :
                        \/ pb'[1].tasks[tid].column_id = pb[1].tasks[tid].column_id
                        \/ \E c \in TaskCalls : ConfigureCall(1, tid, c)]_vars
    /\ [](\A s \in Finished :
            LET b == outcome[s].input IN
            \A tid \in Range(b.draft.task_ids) :
                LET ref == b.tasks[tid].column_id
                    mine == SelectSeq(ReferenceDefects(Added(s)),
                                      LAMBDA x : x.object_id = tid)
                IN IF Truthy(ref) /\ RefResolves(b, ref)
                   THEN /\ outcome[s].db.tasks[tid].column_id = RefTarget(b, ref)
                        /\ mine = <<>>
                   ELSE IF Truthy(ref)
                   THEN mine = <<ValidationError(MsgUnknownColumn(ref), "Task", tid, LocCaller)>>
                   ELSE IF b.draft.column_ids /= <<>>
                   THEN /\ outcome[s].db.tasks[tid].column_id = b.draft.column_ids[1]
                        /\ mine = <<>>
                   ELSE mine = <<ValidationError(MsgTaskNoColumn, "Task", tid, LocCaller)>>)

\* build() returned a snapshot: task_1, created before any column existed,
\* is in column_1, and task_2 is in column_2 by the name it stored
C26_Witness ==
    \E s \in Finished :
        /\ outcome[s].status = "Built"
        /\ outcome[s].input.draft.task_ids = <<"task_1", "task_2">>
        /\ outcome[s].input.draft.column_ids = <<"column_1", "column_2">>
        /\ outcome[s].input.tasks["task_1"].column_id = None
        /\ outcome[s].db.tasks["task_1"].column_id = "column_1"
        /\ outcome[s].input.tasks["task_2"].column_id = "column_2"
        /\ outcome[s].input.columns["column_2"].name = "column_2"
        /\ outcome[s].input.columns["column_1"].name = "Backlog"
        /\ outcome[s].db.tasks["task_2"].column_id = "column_2"

(***************************************************************************)
(* SpecCopyAny: copy_from with field lists that hold names of no copied    *)
(* field, between tasks in different columns, under a changing past-due    *)
(* policy.                                                                 *)
(***************************************************************************)
AnyTitles == {"T", "U"}

AnyCallbacks ==
    {NoCallback,
     <<Call("description", "D", NoDate, <<>>), Call("assignee", " PM ", NoDate, <<>>),
       Call("priority", "High", NoDate, <<>>), Call("due", None, Tomorrow, <<>>)>>,
     <<Call("due", None, Yesterday, <<>>)>>}

\* field lists with names copy_from has no branch for
AnyFieldLists ==
    {DefaultCopyFields, <<"column_id">>, <<"color">>, <<"priority", "created_at">>,
     <<"column_id", "due_date", "id">>}

NextCopyAny ==
    \/ NewSession(1)
    \/ \E v \in BOOLEAN : SetAllowPastDue(1, v)
    \/ \E t \in AnyTitles, cb \in AnyCallbacks, c \in {None, "Backlog"} :
            AddTask(1, t, cb, c)
    \/ \E tid \in TaskIds, other \in TaskIds, fl \in AnyFieldLists :
            /\ 1 \in DOMAIN pb
            /\ {tid, other} \subseteq DOMAIN pb[1].tasks
            /\ ConfigureCall(1, tid, Call("copy_from", other, NoDate, fl))

SpecCopyAny == Init /\ [][NextCopyAny]_vars

\* the entries the setter of field f of task tid records for the value v
\* under the past-due policy allow
SetterEntries(tid, f, v, allow) ==
    CASE f = "title" -> NonEmpty(<<>>, TaskHandle(tid), v, "task.title").vb
      [] f = "priority" ->
            InSet(<<>>, TaskHandle(tid), v, ALLOWED_PRIORITIES, "task.priority").vb
      [] f = "due_date" -> DueNotPast(<<>>, TaskHandle(tid), v, allow)
      [] OTHER -> <<>>

\* C29: copy_from(other, fields) leaves the draft of the source as it was
\* (also when the source is the target), leaves the target's column_id and
\* created_at as they were, does with a field list what it does with the
\* list's copied field names alone (nothing when there is none), and every
\* entry it adds to the bag is an entry the target's setter of a listed
\* field records for the value the source holds.
C29_CopyFromIgnoresOtherFields ==
    [][\A tid \in TaskIds, other \in TaskIds, fl \in AnyFieldLists :
        (/\ 1 \in DOMAIN pb
         /\ {tid, other} \subseteq DOMAIN pb[1].tasks
         /\ ConfigureCall(1, tid, Call("copy_from", other, NoDate, fl))) =>
            LET src == pb[1].tasks[other]
                known == SelectSeq(fl, LAMBDA f : f \in Range(DefaultCopyFields))
            IN /\ pb'[1].tasks[other] = src
               /\ pb'[1].tasks[tid].column_id = pb[1].tasks[tid].column_id
               /\ pb'[1].tasks[tid].created_at = pb[1].tasks[tid].created_at
               /\ pb'[1] = TbCopyFrom(pb[1], tid, other, known)
               /\ known = <<>> => pb'[1] = pb[1]
               /\ \A i \in DOMAIN NewEntries(1) :
                    \E f \in Range(known) :
                        /\ HoldsValue(src, f)
                        /\ NewEntries(1)[i] \in
                            Range(SetterEntries(tid, f, src[f], pb[1].allow_past_due))]_vars

\* task_2, created without column, has taken the past due date of task_1,
\* which is in Backlog, and the bag holds the defect of task_2's due setter
C29_Witness ==
    /\ 1 \in DOMAIN pb
    /\ {"task_1", "task_2"} \subseteq DOMAIN pb[1].tasks
    /\ pb[1].tasks["task_1"].column_id = "Backlog"
    /\ pb[1].tasks["task_2"].column_id = None
    /\ pb[1].tasks["task_1"].due_date = Yesterday
    /\ pb[1].tasks["task_2"].due_date = Yesterday
    /\ pb[1].tasks["task_2"].title = "U"
    /\ pb[1].vb = <<ValidationError(MsgDuePast, "Task", "task_2", LocTask)>>

(***************************************************************************)
(* The submission pipeline: steps, contexts, Pipeline.add and              *)
(* Pipeline.execute.  Scores are in thousandths and grades in tenths.      *)
(***************************************************************************)
Essay == "Introduction and conclusion https://x.org"
Repeat == "Spam spam spam spam"
Short == "hi"
Plain == "some plain text here"
Contents == {Essay, Repeat, Short, Plain}

\* hashlib.sha256(content.encode("utf-8")).hexdigest()[:16]
Sha256Hex16(content) ==
    CASE content = Essay -> "a5948d0043e01ed2"
      [] content = Repeat -> "63b8608e68eaac46"
      [] content = Short -> "8f434346648f6b96"
      [] content = Plain -> "d16a84d0d04f1f28"

\* content.split()
Split(content) ==
    CASE content = Essay -> <<"Introduction", "and", "conclusion", "https://x.org">>
      [] content = Repeat -> <<"Spam", "spam", "spam", "spam">>
      [] content = Short -> <<"hi">>
      [] content = Plain -> <<"some", "plain", "text", "here">>

\* str.lower of a word
Lower(w) ==
    CASE w = "Introduction" -> "introduction"
      [] w = "Spam" -> "spam"
      [] OTHER -> w

\* the words of Contents that hold one of the headings ComputeGrade looks for
\* in the lowered text, and those that hold a reference marker
StructureWords == {"introduction", "conclusion", "summary"}
ReferenceWords == {"https://x.org"}

SubmissionContext(student_id, course_id, content, is_done) ==
    [student_id |-> student_id, course_id |-> course_id, content |-> content,
     is_valid |-> FALSE, similarity_score |-> 0, grade |-> 0, flags |-> <<>>,
     is_done |-> is_done]

\* a step object: its class and its constructor arguments
Step(cls, args) == [cls |-> cls, args |-> args]

\* what a step's execute leaves: the context, the seen hashes, the output
Stepped(ctx, sn, out) == [ctx |-> ctx, seen |-> sn, out |-> out]

\* ValidateSubmission.execute
ValidateSubmission(min_len, ctx) ==
    LET ok == Len(Strip(ctx.content)) >= min_len IN
    IF ok THEN [ctx EXCEPT !.is_valid = TRUE]
    ELSE [ctx EXCEPT !.is_valid = FALSE,
                     !.flags = Append(@, "too_short<" \o Dec(min_len)),
                     !.is_done = TRUE]

\* DeduplicateSubmission.execute that looks the hash up in every course
DeduplicateSubmission_AnyCourse(ctx, sn) ==
    LET h == Sha256Hex16(ctx.content)
        sn1 == IF ctx.course_id \in DOMAIN sn THEN sn ELSE (ctx.course_id :> {}) @@ sn
    IN IF \E c \in DOMAIN sn1 : h \in sn1[c]
       THEN Stepped([ctx EXCEPT !.flags = Append(@, "duplicate_submission"),
                                !.is_done = TRUE], sn1, <<>>)
       ELSE Stepped(ctx, [sn1 EXCEPT ![ctx.course_id] = @ \cup {h}], <<>>)

\* DeduplicateSubmission.execute
DeduplicateSubmission(ctx, sn) ==
    LET h == Sha256Hex16(ctx.content)
        sn1 == IF ctx.course_id \in DOMAIN sn THEN sn ELSE (ctx.course_id :> {}) @@ sn
    IN IF h \in sn1[ctx.course_id]
       THEN Stepped([ctx EXCEPT !.flags = Append(@, "duplicate_submission"),
                                !.is_done = TRUE], sn1, <<>>)
       ELSE Stepped(ctx, [sn1 EXCEPT ![ctx.course_id] = @ \cup {h}], <<>>)

\* round(k / total, 3) in thousandths
Round3(k, total) == (2000 * k + total) \div (2 * total)

\* SimilarityHeuristic.execute
SimilarityHeuristic(ctx) ==
    LET words == [i \in DOMAIN Split(ctx.content) |-> Lower(Split(ctx.content)[i])]
        uniq == Cardinality(Range(words))
        total == IF Len(words) > 1 THEN Len(words) ELSE 1
        score == Round3(total - uniq, total)
    IN [ctx EXCEPT !.similarity_score = score,
                   !.flags = IF score >= 600 THEN Append(@, "high_similarity") ELSE @]

\* RejectIfTooSimilar.execute
RejectIfTooSimilar(threshold, ctx) ==
    IF ctx.similarity_score >= threshold
    THEN [ctx EXCEPT !.is_done = TRUE, !.grade = 0,
                     !.flags = Append(@, "rejected_by_similarity")]
    ELSE ctx

\* ComputeGrade.execute
ComputeGrade(base, structure_bonus, refs_bonus, ctx) ==
    LET text == Split(ctx.content)
        g1 == IF \E i \in DOMAIN text : Lower(text[i]) \in StructureWords
              THEN base + structure_bonus ELSE base
        g2 == IF \E i \in DOMAIN text : Lower(text[i]) \in ReferenceWords
              THEN g1 + refs_bonus ELSE g1
    IN [ctx EXCEPT !.grade = IF g2 < 100 THEN g2 ELSE 100]

\* step.execute(context)
StepExecute(step, ctx, sn) ==
    CASE step.cls = "ValidateSubmission" ->
            Stepped(ValidateSubmission(step.args[1], ctx), sn, <<>>)
      [] step.cls = "DeduplicateSubmission" -> DeduplicateSubmission(ctx, sn)
      [] step.cls = "SimilarityHeuristic" -> Stepped(SimilarityHeuristic(ctx), sn, <<>>)
      [] step.cls = "RejectIfTooSimilar" ->
            Stepped(RejectIfTooSimilar(step.args[1], ctx), sn, <<>>)
      [] step.cls = "ComputeGrade" ->
            Stepped(ComputeGrade(step.args[1], step.args[2], step.args[3], ctx), sn, <<>>)
      [] step.cls = "PrintSubmission" -> Stepped(ctx, sn, <<ctx>>)

\* isinstance(context, Stoppable) and getattr(context, "is_done", False)
Stopped(ctx) == "is_done" \in DOMAIN ctx /\ ctx.is_done

\* what an execute call did: the step list it iterated, the context it was
\* given and the context it left, one entry per step it executed (the index
\* of the step in the list and the flag after it), and the lines printed
Ran(list, given, ctx, sn, trace, out) ==
    [steps |-> list, given |-> given, ctx |-> ctx, seen |-> sn,
     trace |-> trace, out |-> out]

\* the loop of execute without the break
RECURSIVE PipelineExecute_NoBreak(_, _, _)
PipelineExecute_NoBreak(list, i, r) ==
    IF i > Len(list) THEN r
    ELSE LET st == StepExecute(list[i], r.ctx, r.seen)
             r1 == Ran(list, r.given, st.ctx, st.seen,
                       Append(r.trace, [index |-> i, is_done |-> Stopped(st.ctx)]),
                       r.out \o st.out)
         IN PipelineExecute_NoBreak(list, i + 1, r1)

\* the loop of Pipeline.execute, from the i-th step of the copied list on
RECURSIVE PipelineExecute(_, _, _)
PipelineExecute(list, i, r) ==
    IF i > Len(list) THEN r
    ELSE LET st == StepExecute(list[i], r.ctx, r.seen)
             r1 == Ran(list, r.given, st.ctx, st.seen,
                       Append(r.trace, [index |-> i, is_done |-> Stopped(st.ctx)]),
                       r.out \o st.out)
         IN IF Stopped(st.ctx) THEN r1 ELSE PipelineExecute(list, i + 1, r1)

\* the steps a client adds
StepObjects ==
    {Step("ValidateSubmission", <<10>>), Step("DeduplicateSubmission", <<>>),
     Step("SimilarityHeuristic", <<>>), Step("RejectIfTooSimilar", <<700>>),
     Step("ComputeGrade", <<60, 20, 20>>), Step("PrintSubmission", <<>>)}

Courses == {"cAI", "cDB"}

\* pipeline.add(step)
Add(step) ==
    /\ Len(steps) < MaxSteps
    /\ steps' = Append(steps, step)
    /\ UNCHANGED <<board, seen, runs, keys>>

\* pipeline.execute(SubmissionContext(...))
Execute(ctx) ==
    /\ Len(runs) < MaxRuns
    /\ LET r == PipelineExecute(steps, 1, Ran(steps, ctx, ctx, seen, <<>>, <<>>))
       IN /\ runs' = Append(runs, r)
          /\ seen' = r.seen
    /\ UNCHANGED <<board, steps, keys>>

NextPipeline ==
    \/ \E step \in StepObjects : Add(step)
    \/ \E course \in Courses, content \in Contents, done \in BOOLEAN :
            Execute(SubmissionContext("s1", course, content, done))

SpecPipeline == Init /\ [][NextPipeline]_vars

\* C30: every execute call runs the steps of the list in list order from
\* the first on, the list being the steps in the order add() appended them;
\* it ends after the first step that leaves is_done set and runs no step
\* after it, and runs every step once when no step leaves the flag set.
C30_ExecuteInOrderUntilDone ==
    /\ [][\A step \in StepObjects : Add(step) => steps' = Append(steps, step)]_vars
    /\ [](\A n \in DOMAIN runs :
            LET r == runs[n]
                k == Len(r.trace)
            IN /\ k <= Len(r.steps)
               /\ \A j \in 1..k : r.trace[j].index = j
               /\ \A j \in 1..(k - 1) : ~r.trace[j].is_done
               /\ k < Len(r.steps) => (k >= 1 /\ r.trace[k].is_done)
               /\ k >= 1 => r.ctx.is_done = r.trace[k].is_done
               /\ Len(r.out) =
                    Cardinality({j \in 1..k : r.steps[j].cls = "PrintSubmission"}))

\* an execute call of a pipeline of three steps ended after the second, a
\* RejectIfTooSimilar that rejected, and the PrintSubmission after it printed
\* nothing
C30_Witness ==
    \E n \in DOMAIN runs :
        /\ Len(runs[n].steps) = 3
        /\ runs[n].steps[2].cls = "RejectIfTooSimilar"
        /\ runs[n].steps[3].cls = "PrintSubmission"
        /\ Len(runs[n].trace) = 2
        /\ ~runs[n].given.is_done
        /\ runs[n].ctx.is_done
        /\ runs[n].out = <<>>

(***************************************************************************)
(* Duplicate submissions, read from the record of the execute calls.       *)
(***************************************************************************)
\* the DeduplicateSubmission steps the execute call r ran: their indices
Deduplicated(r) ==
    {j \in 1..Len(r.trace) : r.steps[j].cls = "DeduplicateSubmission"}

\* the smallest element of a non-empty set of numbers
Min(S) == CHOOSE x \in S : \A y \in S : x <= y

\* the execute calls before the n-th that ran DeduplicateSubmission on a
\* submission of the same course with the same content
EarlierSame(n) ==
    {m \in 1..(n - 1) : /\ Deduplicated(runs[m]) /= {}
                        /\ runs[m].given.course_id = runs[n].given.course_id
                        /\ runs[m].given.content = runs[n].given.content}

\* C31: a submission that reaches DeduplicateSubmission is flagged
\* duplicate_submission and marked done by it when an earlier submission
\* of the same course with the same content reached the step, and
\* otherwise passes it unflagged and is remembered; submissions of other
\* courses play no part, and a submission that never reaches the step
\* (stopped before it) leaves the remembered hashes as they were.  The
\* remembered hashes of a course are those of the submissions of that
\* course that reached the step.
C31_DuplicatePerCourse ==
    /\ \A n \in DOMAIN runs :
        LET r == runs[n]
            before == IF n = 1 THEN <<>> ELSE runs[n - 1].seen
        IN IF Deduplicated(r) = {}
           THEN /\ r.seen = before
                /\ \A i \in DOMAIN r.ctx.flags : r.ctx.flags[i] /= "duplicate_submission"
           ELSE LET first == Min(Deduplicated(r)) IN
                /\ Sha256Hex16(r.given.content) \in r.seen[r.given.course_id]
                /\ IF EarlierSame(n) /= {}
                   THEN /\ Len(r.trace) = first
                        /\ r.ctx.is_done
                        /\ r.ctx.flags /= <<>>
                        /\ r.ctx.flags[Len(r.ctx.flags)] = "duplicate_submission"
                        /\ r.seen = before
                   ELSE /\ Len(r.trace) = first =>
                            \A i \in DOMAIN r.ctx.flags :
                                r.ctx.flags[i] /= "duplicate_submission"
                        /\ (Len(r.trace) > first /\ ~r.given.is_done) =>
                                ~r.trace[first].is_done
    /\ DOMAIN seen = {runs[n].given.course_id :
                        n \in {m \in DOMAIN runs : Deduplicated(runs[m]) /= {}}}
    /\ \A c \in DOMAIN seen :
            seen[c] = {Sha256Hex16(runs[n].given.content) :
                        n \in {m \in DOMAIN runs : /\ Deduplicated(runs[m]) /= {}
                                                   /\ runs[m].given.course_id = c}}

\* the pipeline validates and then deduplicates: the first essay of course
\* cAI passed both steps, the second one with the same content was flagged
\* and marked done by DeduplicateSubmission
C31_Witness ==
    /\ Len(runs) = 2
    /\ Len(steps) >= 2
    /\ steps[1].cls = "ValidateSubmission"
    /\ steps[2].cls = "DeduplicateSubmission"
    /\ runs[1].steps = steps
    /\ runs[1].given = SubmissionContext("s1", "cAI", Essay, FALSE)
    /\ runs[2].given = SubmissionContext("s1", "cAI", Essay, FALSE)
    /\ runs[1].ctx.flags = <<>>
    /\ runs[2].ctx.flags = <<"duplicate_submission">>
    /\ runs[2].ctx.is_done
    /\ Len(runs[2].trace) = 2
    /\ seen = ("cAI" :> {Sha256Hex16(Essay)})

(***************************************************************************)
(* The key registry: one class-level dict of typed keys.  A type is the    *)
(* string of its __name__.                                                 *)
(***************************************************************************)
KeyNames == {"user.id", "user.name", "request.id"}
ValueTypes == {"int", "str"}

TypedKey(name, value_type) == [name |-> name, value_type |-> value_type]

\* the message of the ValueError register raises
MsgAlreadyRegistered(name, existing) ==
    "Key '" \o name \o "' already registered with type " \o existing.value_type

\* what a KeyRegistry call leaves: the dict, the key returned (NoKey when
\* it raised or returned None) and the message of the error raised (None when it returned)
Replied(reg, ret, raised) == [registry |-> reg, ret |-> ret, raised |-> raised]

\* register that replaces the key of a registered name
KrRegister_Overwrite(reg, name, value_type) ==
    Replied((name :> TypedKey(name, value_type)) @@ reg, TypedKey(name, value_type), None)

\* KeyRegistry.register
KrRegister(reg, name, value_type) ==
    IF name \in DOMAIN reg
    THEN Replied(reg, NoKey, MsgAlreadyRegistered(name, reg[name]))
    ELSE Replied((name :> TypedKey(name, value_type)) @@ reg,
                 TypedKey(name, value_type), None)

\* KeyRegistry.get
KrGet(reg, name) ==
    Replied(reg, IF name \in DOMAIN reg THEN reg[name] ELSE NoKey, None)

\* KeyRegistry.clear_for_tests
KrClearForTests(reg) == Replied(<<>>, NoKey, None)

\* a KeyRegistry call: the dict and the record of the call change
Called(op, name, value_type, r) ==
    /\ registry' = r.registry
    /\ reply' = [op |-> op, name |-> name, value_type |-> value_type,
                 ret |-> r.ret, raised |-> r.raised]
    /\ UNCHANGED <<board, pipeline>>

\* KeyRegistry.register(name, value_type)
Register(name, value_type) ==
    Called("register", name, value_type, KrRegister(registry, name, value_type))

\* KeyRegistry.get(name)
Get(name) == Called("get", name, None, KrGet(registry, name))

\* KeyRegistry.clear_for_tests()
ClearForTests == Called("clear_for_tests", None, None, KrClearForTests(registry))

NextKeys ==
    \/ \E name \in KeyNames, value_type \in ValueTypes : Register(name, value_type)
    \/ \E name \in KeyNames : Get(name)
    \/ ClearForTests

SpecKeys == Init /\ [][NextKeys]_vars

\* C32: the registry holds under each name the one key of that name;
\* register(name, type) of a name that is not registered returns the new
\* key and stores it, leaving the other keys alone; register of a
\* registered name, with the same type or another, raises the error that
\* names the registered type and leaves the registry, and so the key first
\* registered, as it was; get changes nothing.
C32_OneKeyPerName ==
    /\ [][\A name \in KeyNames :
            /\ \A value_type \in ValueTypes :
                Register(name, value_type) =>
                    IF name \in DOMAIN registry
                    THEN /\ registry' = registry
                         /\ reply'.ret = NoKey
                         /\ reply'.raised =
                                "Key '" \o name \o "' already registered with type "
                                    \o registry[name].value_type
                    ELSE /\ DOMAIN registry' = DOMAIN registry \cup {name}
                         /\ registry'[name] = TypedKey(name, value_type)
                         /\ \A other \in DOMAIN registry : registry'[other] = registry[other]
                         /\ reply'.ret = TypedKey(name, value_type)
                         /\ reply'.raised = None
            /\ Get(name) =>
                    /\ registry' = registry
                    /\ reply'.raised = None
                    /\ reply'.ret = IF name \in DOMAIN registry THEN registry[name] ELSE NoKey]_vars
    /\ [](\A name \in DOMAIN registry :
            /\ name \in KeyNames
            /\ registry[name].name = name
            /\ registry[name].value_type \in ValueTypes)

\* user.id is registered with int beside user.name, and the last call, a
\* register of user.id with str, raised
C32_Witness ==
    /\ DOMAIN registry = {"user.id", "user.name"}
    /\ registry["user.id"] = TypedKey("user.id", "int")
    /\ reply.op = "register"
    /\ reply.name = "user.id"
    /\ reply.value_type = "str"
    /\ reply.ret = NoKey
    /\ reply.raised = "Key 'user.id' already registered with type int"

====
